---------------------------- MODULE Spec2Model ----------------------------
(***************************************************************************)
(* A model of the TreeVisualizer tree engines (binary search tree, AVL,    *)
(* B-Tree, B+Tree, Red-Black tree).  One engine (family) is chosen in the  *)
(* initial state; the store holds its current root, and every action is    *)
(* one call of an engine function whose result replaces the root, as the   *)
(* Sidebar handlers do (setRoot(newRoot)).                                 *)
(*                                                                         *)
(* Trees are values: a node is a record, the null reference is Nil.  The   *)
(* engines clone their input before mutating it, so the functional         *)
(* operators below compute the tree the call returns.  `values` stands for *)
(* the list parseValues returns (distinct numbers, input order).           *)
(***************************************************************************)
EXTENDS Integers, Sequences, FiniteSets, TLC

VARIABLES
    family,   \* which engine the page runs: useTreeStore.treeType
    root,     \* useTreeStore.root: the tree the last call returned
    op,       \* name of the last engine call
    hit,      \* the last call changed the set of stored values
    threw,    \* the last call ended in an uncaught TypeError
    trace,    \* build runs: the tree snapshot recorded after each value;
              \* searches: the kinds of the steps returned
    query,    \* the value or word the last call searched for (NoQuery: none)
    degree,   \* the minimum degree t entered for B-Trees and B+ Trees
    stored,   \* the values put in and not deleted since (history)
    intact,   \* the tree passed to the last call is, after the call, as it
              \* was before the call
    nodeIdCounter,  \* the module counters new node ids are taken from
    ids,      \* the id of each node of root, by the value of the node
    issued,   \* the ids given to created nodes so far, in order (history)
    store,    \* useTreeStore: steps, index, playing, playIntervalId,
              \* activeAction
    window,   \* the timers of the page: the live setInterval ids, how many
              \* were created, the setTimeout callbacks not yet run
    handsOff  \* the user has stopped acting (history)

vars == <<family, root, op, hit, threw, trace, query, degree, stored, intact,
          nodeIdCounter, ids, issued, store, window, handsOff>>

\* The playback state is followed in the actions of SpecPlayback only; every
\* other action leaves it alone.
playvars == <<store, window, handsOff>>

\* useTreeStore.ts initial state; setInterval returns positive integers, 0
\* stands for playIntervalId: null and "none" for activeAction: null
InitStore ==
    /\ store = [steps |-> <<>>, index |-> -1, playing |-> FALSE,
                playIntervalId |-> 0, activeAction |-> "none"]
    /\ window = [intervals |-> {}, created |-> 0, timeouts |-> 0]
    /\ handsOff = FALSE

\* Node ids are followed for the binary engines in the actions of SpecIds
\* only; every other action leaves them alone.
idvars == <<nodeIdCounter, ids, issued>>

\* bstOperations.ts: let nodeIdCounter = 1000; avlTree.ts: let nodeIdCounter
\* = 2000
InitIds ==
    /\ nodeIdCounter = [bstOperations |-> 1000, avlTree |-> 2000]
    /\ ids = <<>>
    /\ issued = <<>>

(***************************************************************************)
(* Bounds of the model.                                                    *)
(***************************************************************************)
MaxVal == 5        \* values are 1..MaxVal
MaxInput == 2      \* values in one insert/delete input
MaxBuildVal == 6   \* build runs: values are 1..MaxBuildVal
MaxKey == 8        \* B-Tree keys are 1..MaxKey
MaxKeyBuild == 4   \* keys in one B-Tree build input
MaxKeyInput == 1   \* keys in one B-Tree insert/delete input
MaxDegree == 3     \* minimum degrees are 2..MaxDegree
MaxBPlusKey == 7   \* B+ Tree keys are 1..MaxBPlusKey
MaxRBVal == 6      \* Red-Black values are 1..MaxRBVal
MaxRBBuild == 4    \* values in one Red-Black build input
MaxRBInput == 1    \* values in one Red-Black insert input
MaxWordLen == 2    \* Trie words have 1..MaxWordLen letters
MaxTrieWords == 3  \* words a Trie holds at most
MaxTrieBuild == 2  \* words in one Trie build input
MaxTrieInput == 1  \* words in one Trie insert input
MaxDegreeKey == 5  \* keys are 1..MaxDegreeKey where the degree field is typed
MaxRunKey == 7     \* B-Tree build runs: keys are 1..MaxRunKey
MaxIdVal == 3      \* values are 1..MaxIdVal where node ids are followed
MaxIssued == 6     \* node ids issued at most where node ids are followed
MaxSteps == 3      \* steps of a trace played back
MaxTimers == 3     \* interval timers created at most
MaxTimeouts == 2   \* setTimeout callbacks waiting at most

Values == 1..MaxVal

\* the lists parseValues can return with at most n values
ValueLists(n) ==
    {s \in UNION {[1..k -> Values] : k \in 0..n} :
        \A i, j \in DOMAIN s : i # j => s[i] # s[j]}

OpInputs == ValueLists(MaxInput)
BuildInputs == ValueLists(MaxVal)
BuildRunInputs ==
    {s \in UNION {[1..k -> 1..MaxBuildVal] : k \in 0..MaxBuildVal} :
        \A i, j \in DOMAIN s : i # j => s[i] # s[j]}

Range(s) == {s[i] : i \in DOMAIN s}
Max(a, b) == IF a >= b THEN a ELSE b
Abs(a) == IF a >= 0 THEN a ELSE -a

(***************************************************************************)
(* Binary nodes (types.ts TreeNode).                                       *)
(***************************************************************************)
Nil == [nil |-> TRUE]
NoQuery == [none |-> TRUE]
THROWN == [thrown |-> TRUE]     \* an operator's result when the code throws

TreeNode(v, l, r) == [value |-> v, left |-> l, right |-> r]

\* left-to-right fold of a per-value operator over a list of values;
\* a THROWN result aborts the loop
RECURSIVE FoldValues(_, _, _)
FoldValues(F(_, _), tree, values) ==
    IF values = <<>> \/ tree = THROWN THEN tree
    ELSE FoldValues(F, F(tree, Head(values)), Tail(values))

RECURSIVE TreeValues(_)
TreeValues(node) ==
    IF node = Nil THEN {}
    ELSE {node.value} \cup TreeValues(node.left) \cup TreeValues(node.right)

RECURSIVE TreeSize(_)
TreeSize(node) ==
    IF node = Nil THEN 0 ELSE 1 + TreeSize(node.left) + TreeSize(node.right)

(***************************************************************************)
(* BST engine: buildTree.ts, bstOperations.ts                              *)
(***************************************************************************)
\* buildTree.ts insertNode
RECURSIVE insertNode(_, _)
insertNode(node, value) ==
    IF node = Nil THEN TreeNode(value, Nil, Nil)
    ELSE IF value = node.value THEN node
    ELSE IF value < node.value
         THEN [node EXCEPT !.left = insertNode(node.left, value)]
         ELSE [node EXCEPT !.right = insertNode(node.right, value)]

buildTree(values) == FoldValues(insertNode, Nil, values)

\* bstOperations.ts insertSingleValue: the loop walks down from the root and
\* attaches the new node at the first empty side; an equal value ends it
RECURSIVE insertSingleValue(_, _)
insertSingleValue(current, value) ==
    IF current = Nil THEN TreeNode(value, Nil, Nil)
    ELSE IF value = current.value THEN current
    ELSE IF value < current.value
         THEN IF current.left = Nil
              THEN [current EXCEPT !.left = TreeNode(value, Nil, Nil)]
              ELSE [current EXCEPT !.left = insertSingleValue(current.left, value)]
         ELSE IF current.right = Nil
              THEN [current EXCEPT !.right = TreeNode(value, Nil, Nil)]
              ELSE [current EXCEPT !.right = insertSingleValue(current.right, value)]

insertWithSteps(startRoot, values) ==
    IF values = <<>> THEN startRoot
    ELSE FoldValues(insertSingleValue, startRoot, values)

\* Variant of findMin that does not walk to the leftmost node.
findMinShallow(node) == node

RECURSIVE findMin(_)
findMin(node) == IF node.left # Nil THEN findMin(node.left) ELSE node

RECURSIVE deleteNodeRecursive(_, _)
deleteNodeRecursive(node, value) ==
    IF node = Nil THEN Nil
    ELSE IF value < node.value
         THEN [node EXCEPT !.left = deleteNodeRecursive(node.left, value)]
    ELSE IF value > node.value
         THEN [node EXCEPT !.right = deleteNodeRecursive(node.right, value)]
    ELSE IF node.left = Nil /\ node.right = Nil THEN Nil
    ELSE IF node.left = Nil THEN node.right
    ELSE IF node.right = Nil THEN node.left
    ELSE LET successor == findMin(node.right)
         IN  [node EXCEPT !.value = successor.value,
                          !.right = deleteNodeRecursive(node.right, successor.value)]

deleteWithSteps(startRoot, values) ==
    IF values = <<>> \/ startRoot = Nil THEN startRoot
    ELSE FoldValues(deleteNodeRecursive, startRoot, values)

(***************************************************************************)
(* AVL engine: avlTree.ts (build), avlOperations.ts (insert, delete)       *)
(***************************************************************************)
RECURSIVE getHeight(_)
getHeight(node) ==
    IF node = Nil THEN 0
    ELSE 1 + Max(getHeight(node.left), getHeight(node.right))

getBalance(node) ==
    IF node = Nil THEN 0 ELSE getHeight(node.left) - getHeight(node.right)

\* x = y.left; reading x.right of a null x is a TypeError
rotateRight(y) ==
    IF y.left = Nil THEN THROWN
    ELSE LET x == y.left
         IN  [x EXCEPT !.right = [y EXCEPT !.left = x.right]]

rotateLeft(x) ==
    IF x.right = Nil THEN THROWN
    ELSE LET y == x.right
         IN  [y EXCEPT !.left = [x EXCEPT !.right = y.left]]

\* the four insert cases, applied to a node whose subtree has received value
insertRebalance(node, value) ==
    LET balance == getBalance(node)
    IN  IF balance > 1 /\ node.left # Nil /\ value < node.left.value
            THEN rotateRight(node)
        ELSE IF balance < -1 /\ node.right # Nil /\ value > node.right.value
            THEN rotateLeft(node)
        ELSE IF balance > 1 /\ node.left # Nil /\ value > node.left.value
            THEN LET l == rotateLeft(node.left)
                 IN  IF l = THROWN THEN THROWN
                     ELSE rotateRight([node EXCEPT !.left = l])
        ELSE IF balance < -1 /\ node.right # Nil /\ value < node.right.value
            THEN LET r == rotateRight(node.right)
                 IN  IF r = THROWN THEN THROWN
                     ELSE rotateLeft([node EXCEPT !.right = r])
        ELSE node

\* avlTree.ts insertAVLNode (instant build) and avlOperations.ts
\* insertAVLRecursive: insert below, then rebalance this node
RECURSIVE insertAVLRecursive(_, _)
insertAVLRecursive(node, value) ==
    IF node = Nil THEN TreeNode(value, Nil, Nil)
    ELSE IF value = node.value THEN node
    ELSE LET sub == IF value < node.value
                    THEN insertAVLRecursive(node.left, value)
                    ELSE insertAVLRecursive(node.right, value)
         IN  IF sub = THROWN THEN THROWN
             ELSE IF value < node.value
                  THEN insertRebalance([node EXCEPT !.left = sub], value)
                  ELSE insertRebalance([node EXCEPT !.right = sub], value)

\* avlTree.ts insertAVLNode: the instant build's own recursive insert
RECURSIVE insertAVLNode(_, _)
insertAVLNode(node, value) ==
    IF node = Nil THEN TreeNode(value, Nil, Nil)
    ELSE IF value = node.value THEN node
    ELSE LET sub == IF value < node.value
                    THEN insertAVLNode(node.left, value)
                    ELSE insertAVLNode(node.right, value)
         IN  IF sub = THROWN THEN THROWN
             ELSE IF value < node.value
                  THEN insertRebalance([node EXCEPT !.left = sub], value)
                  ELSE insertRebalance([node EXCEPT !.right = sub], value)

buildAVLTree(values) == FoldValues(insertAVLNode, Nil, values)

\* avlTree.ts insertAndTrack: plain descent, no balance check on the way back
RECURSIVE insertAndTrack(_, _)
insertAndTrack(node, value) ==
    IF value = node.value THEN node
    ELSE IF value < node.value
         THEN IF node.left = Nil
              THEN [node EXCEPT !.left = TreeNode(value, Nil, Nil)]
              ELSE [node EXCEPT !.left = insertAndTrack(node.left, value)]
         ELSE IF node.right = Nil
              THEN [node EXCEPT !.right = TreeNode(value, Nil, Nil)]
              ELSE [node EXCEPT !.right = insertAndTrack(node.right, value)]

\* avlTree.ts insertAVLNodeWithSteps: the rotation cases are tested on the
\* root that insertAndTrack returns
insertAVLNodeWithSteps(startRoot, value) ==
    IF startRoot = Nil THEN TreeNode(value, Nil, Nil)
    ELSE insertRebalance(insertAndTrack(startRoot, value), value)

buildAVLTreeWithSteps(values) == FoldValues(insertAVLNodeWithSteps, Nil, values)

insertAVLWithSteps(startRoot, values) ==
    IF values = <<>> THEN startRoot
    ELSE FoldValues(insertAVLRecursive, startRoot, values)

\* the four delete cases
\* Variant of deleteRebalance with the strict child-balance tests of the
\* insertion cases (> 0 and < 0), which leave a child balance of 0 unhandled.
deleteRebalanceStrict(node) ==
    LET balance == getBalance(node)
    IN  IF balance > 1 /\ getBalance(node.left) > 0
            THEN rotateRight(node)
        ELSE IF balance > 1 /\ getBalance(node.left) < 0
            THEN LET l == rotateLeft(node.left)
                 IN  IF l = THROWN THEN THROWN
                     ELSE rotateRight([node EXCEPT !.left = l])
        ELSE IF balance < -1 /\ getBalance(node.right) < 0
            THEN rotateLeft(node)
        ELSE IF balance < -1 /\ getBalance(node.right) > 0
            THEN LET r == rotateRight(node.right)
                 IN  IF r = THROWN THEN THROWN
                     ELSE rotateLeft([node EXCEPT !.right = r])
        ELSE node

deleteRebalance(node) ==
    LET balance == getBalance(node)
    IN  IF balance > 1 /\ getBalance(node.left) >= 0
            THEN rotateRight(node)
        ELSE IF balance > 1 /\ getBalance(node.left) < 0
            THEN LET l == rotateLeft(node.left)
                 IN  IF l = THROWN THEN THROWN
                     ELSE rotateRight([node EXCEPT !.left = l])
        ELSE IF balance < -1 /\ getBalance(node.right) <= 0
            THEN rotateLeft(node)
        ELSE IF balance < -1 /\ getBalance(node.right) > 0
            THEN LET r == rotateRight(node.right)
                 IN  IF r = THROWN THEN THROWN
                     ELSE rotateLeft([node EXCEPT !.right = r])
        ELSE node

RECURSIVE deleteAVLRecursive(_, _)
deleteAVLRecursive(node, value) ==
    IF node = Nil THEN Nil
    ELSE IF value < node.value
         THEN deleteRebalance(
                [node EXCEPT !.left = deleteAVLRecursive(node.left, value)])
    ELSE IF value > node.value
         THEN deleteRebalance(
                [node EXCEPT !.right = deleteAVLRecursive(node.right, value)])
    ELSE IF node.left = Nil /\ node.right = Nil THEN Nil
    ELSE IF node.left = Nil THEN node.right
    ELSE IF node.right = Nil THEN node.left
    ELSE LET successor == findMin(node.right)
         IN  deleteRebalance(
                [node EXCEPT !.value = successor.value,
                             !.right = deleteAVLRecursive(node.right, successor.value)])

deleteAVLWithSteps(startRoot, values) ==
    IF values = <<>> \/ startRoot = Nil THEN startRoot
    ELSE FoldValues(deleteAVLRecursive, startRoot, values)

(***************************************************************************)
(* The store and the handlers.  A build discards the current root, so it   *)
(* is taken from the empty store only: built over another root it returns  *)
(* the same tree.  A call that throws leaves the store as it was.          *)
(* CallMutating is a call that works on the object passed in: `after` is   *)
(* that object when the call returns.  CallStoring is a call that works on *)
(* a deep copy of it (cloneTree, cloneBTreeNode, cloneBPlusTreeNode,       *)
(* convertToRBTree), or that is passed no tree (the builds).               *)
(***************************************************************************)
CallMutating(name, before, after, result, values) ==
    /\ op' = name
    /\ threw' = (result = THROWN)
    /\ root' = IF result = THROWN THEN before ELSE result
    /\ stored' = IF result = THROWN THEN stored ELSE values
    /\ trace' = <<>>
    /\ query' = NoQuery
    /\ intact' = (after = before)
    /\ UNCHANGED <<family, degree>>
    /\ UNCHANGED <<idvars, playvars>>

CallStoring(name, before, result, values) ==
    CallMutating(name, before, before, result, values)

Call(name, before, result) == CallStoring(name, before, result, stored)

BSTBuild ==
    /\ family = "bst" /\ root = Nil
    /\ \E values \in BuildInputs :
          /\ CallStoring("build", root, buildTree(values), Range(values))
          /\ hit' = (values # <<>>)

BSTInsert ==
    /\ family = "bst"
    /\ \E values \in OpInputs :
          /\ CallStoring("insert", root, insertWithSteps(root, values),
                         stored \cup Range(values))
          /\ hit' = (TreeValues(root') # TreeValues(root))

BSTDelete ==
    /\ family = "bst"
    /\ \E values \in OpInputs :
          /\ CallStoring("delete", root, deleteWithSteps(root, values),
                         stored \ Range(values))
          /\ hit' = (TreeValues(root') # TreeValues(root))

AVLBuild ==
    /\ family = "avl" /\ root = Nil
    /\ \E values \in BuildInputs :
          /\ CallStoring("build", root, buildAVLTree(values), Range(values))
          /\ hit' = (values # <<>>)

AVLBuildWithSteps ==
    /\ family = "avl" /\ root = Nil
    /\ \E values \in BuildInputs :
          /\ CallStoring("buildWithSteps", root, buildAVLTreeWithSteps(values), Range(values))
          /\ hit' = (values # <<>>)

AVLInsert ==
    /\ family = "avl"
    /\ \E values \in OpInputs :
          /\ CallStoring("insert", root, insertAVLWithSteps(root, values),
                         stored \cup Range(values))
          /\ hit' = (TreeValues(root') # TreeValues(root))

AVLDelete ==
    /\ family = "avl"
    /\ \E values \in OpInputs :
          /\ CallStoring("delete", root, deleteAVLWithSteps(root, values),
                         stored \ Range(values))
          /\ hit' = (TreeValues(root') # TreeValues(root))

InitBinary ==
    /\ family \in {"bst", "avl"}
    /\ root = Nil
    /\ op = "init"
    /\ hit = FALSE
    /\ threw = FALSE
    /\ trace = <<>>
    /\ query = NoQuery
    /\ degree = 3
    /\ stored = {}
    /\ intact = TRUE
    /\ InitIds
    /\ InitStore

NextBinary ==
    \/ BSTBuild \/ BSTInsert \/ BSTDelete
    \/ AVLBuild \/ AVLBuildWithSteps \/ AVLInsert \/ AVLDelete

SpecBinary == InitBinary /\ [][NextBinary]_vars

(***************************************************************************)
(* Build runs: one animated or instant AVL build of a longer list, with    *)
(* the snapshot the build loop attaches to the steps of each value         *)
(* (tree: cloneTree(root) after insertAVLNodeWithSteps returned).          *)
(***************************************************************************)
Snapshots(F(_, _), values) ==
    LET all == [k \in 1..Len(values) |-> FoldValues(F, Nil, SubSeq(values, 1, k))]
    IN  SelectSeq(all, LAMBDA tr : tr # THROWN)

AVLBuildRun ==
    /\ family = "avl" /\ root = Nil
    /\ \E values \in BuildRunInputs :
          /\ op' = "build"
          /\ root' = buildAVLTree(values)
          /\ trace' = <<>>
          /\ hit' = (values # <<>>)
          /\ stored' = Range(values)
          /\ UNCHANGED <<family, threw, query, degree, intact>>
          /\ UNCHANGED <<idvars, playvars>>

AVLBuildWithStepsRun ==
    /\ family = "avl" /\ root = Nil
    /\ \E values \in BuildRunInputs :
          LET result == buildAVLTreeWithSteps(values)
          IN  /\ op' = "buildWithSteps"
              /\ threw' = (result = THROWN)
              /\ root' = IF result = THROWN THEN root ELSE result
              /\ trace' = Snapshots(insertAVLNodeWithSteps, values)
              /\ hit' = (values # <<>>)
              /\ stored' = IF result = THROWN THEN stored ELSE Range(values)
              /\ query' = values
              /\ UNCHANGED <<family, degree, intact>>
              /\ UNCHANGED <<idvars, playvars>>

InitAVLBuild ==
    /\ family = "avl"
    /\ root = Nil
    /\ op = "init"
    /\ hit = FALSE
    /\ threw = FALSE
    /\ trace = <<>>
    /\ query = NoQuery
    /\ degree = 3
    /\ stored = {}
    /\ intact = TRUE
    /\ InitIds
    /\ InitStore

NextAVLBuild == AVLBuildRun \/ AVLBuildWithStepsRun

SpecAVLBuild == InitAVLBuild /\ [][NextAVLBuild]_vars

\* a build run followed by inserts
NextAVLBuildInsert == NextAVLBuild \/ AVLInsert

SpecAVLBuildInsert == InitAVLBuild /\ [][NextAVLBuildInsert]_vars

(***************************************************************************)
(* B-Tree engine: bTree.ts (build), bTreeOperations.ts (insert, delete).   *)
(* A node is [keys, children, isLeaf]; positions are 0-based as in the     *)
(* source.  MIN_DEGREE is the module variable both files assign before     *)
(* they run; it holds the entered degree.                                  *)
(***************************************************************************)
MIN_DEGREE == degree

BTreeNode(keys, children, isLeaf) ==
    [keys |-> keys, children |-> children, isLeaf |-> isLeaf]

At(s, i) == s[i + 1]
SetAt(s, i, x) == [s EXCEPT ![i + 1] = x]
\* Array.prototype.splice(i, 0, x) and splice(i, 1)
SpliceIn(s, i, x) == SubSeq(s, 1, i) \o <<x>> \o SubSeq(s, i + 1, Len(s))
SpliceOut(s, i) == SubSeq(s, 1, i) \o SubSeq(s, i + 2, Len(s))
Take(s, n) == SubSeq(s, 1, IF n < Len(s) THEN n ELSE Len(s))
Drop(s, n) == SubSeq(s, n + 1, Len(s))

\* while (i < keys.length && key > keys[i]) i++
RECURSIVE ScanUp(_, _, _)
ScanUp(keys, key, i) ==
    IF i < Len(keys) /\ key > At(keys, i) THEN ScanUp(keys, key, i + 1) ELSE i

\* while (i >= 0 && key < keys[i]) i--
RECURSIVE ScanDown(_, _, _)
ScanDown(keys, key, i) ==
    IF i >= 0 /\ key < At(keys, i) THEN ScanDown(keys, key, i - 1) ELSE i

RECURSIVE BTreeKeys(_)
BTreeKeys(node) ==
    IF node = Nil THEN {}
    ELSE {node.keys[k] : k \in DOMAIN node.keys}
         \cup UNION {BTreeKeys(node.children[c]) : c \in DOMAIN node.children}

RECURSIVE keyExists(_, _)
keyExists(node, key) ==
    IF node = Nil THEN FALSE
    ELSE LET i == ScanUp(node.keys, key, 0)
         IN  IF i < Len(node.keys) /\ key = At(node.keys, i) THEN TRUE
             ELSE IF node.isLeaf THEN FALSE
             ELSE keyExists(At(node.children, i), key)

splitChild(parent, index) ==
    LET fullChild == At(parent.children, index)
        t == MIN_DEGREE
        newChild == BTreeNode(Drop(fullChild.keys, t),
                              IF fullChild.isLeaf THEN <<>>
                              ELSE Drop(fullChild.children, t),
                              fullChild.isLeaf)
        kept == Take(fullChild.keys, t)
        midKey == kept[Len(kept)]
        left == BTreeNode(SubSeq(kept, 1, Len(kept) - 1),
                          IF fullChild.isLeaf THEN fullChild.children
                          ELSE Take(fullChild.children, t),
                          fullChild.isLeaf)
    IN  [parent EXCEPT
            !.keys = SpliceIn(parent.keys, index, midKey),
            !.children = SpliceIn(SetAt(parent.children, index, left),
                                  index + 1, newChild)]

RECURSIVE insertNonFull(_, _)
insertNonFull(node, key) ==
    LET i == ScanDown(node.keys, key, Len(node.keys) - 1)
    IN  IF node.isLeaf
        THEN [node EXCEPT !.keys = SpliceIn(node.keys, i + 1, key)]
        ELSE LET c == i + 1
                 full == Len(At(node.children, c).keys) = 2 * MIN_DEGREE - 1
                 split == IF full THEN splitChild(node, c) ELSE node
                 j == IF full /\ key > At(split.keys, c) THEN c + 1 ELSE c
             IN  [split EXCEPT !.children =
                    SetAt(split.children, j,
                          insertNonFull(At(split.children, j), key))]

\* Variant of insertBTree that does not split a full root first.
insertBTreeRootKept(btreeRoot, key) == insertNonFull(btreeRoot, key)

insertBTree(btreeRoot, key) ==
    IF Len(btreeRoot.keys) = 2 * MIN_DEGREE - 1
    THEN insertNonFull(splitChild(BTreeNode(<<>>, <<btreeRoot>>, FALSE), 0), key)
    ELSE insertNonFull(btreeRoot, key)

buildBTree(values) ==
    IF values = <<>> THEN Nil
    ELSE FoldValues(insertBTree, BTreeNode(<<>>, <<>>, TRUE), values)

\* the animated build runs the same statements and records steps
buildBTreeWithSteps(values) ==
    IF values = <<>> THEN Nil
    ELSE FoldValues(insertBTree, BTreeNode(<<>>, <<>>, TRUE), values)

\* bTreeOperations.ts: the loop body of insertBTreeWithSteps
insertExistingSkipped(btreeRoot, value) ==
    IF keyExists(btreeRoot, value) THEN btreeRoot
    ELSE insertBTree(btreeRoot, value)

insertBTreeWithSteps(startRoot, values) ==
    IF values = <<>> THEN startRoot
    ELSE FoldValues(insertExistingSkipped,
                    IF startRoot = Nil THEN BTreeNode(<<>>, <<>>, TRUE)
                    ELSE startRoot,
                    values)

\* Variant of getPredecessor that takes the leftmost key of the child's
\* subtree.
getPredecessorLeftmost(node, i) ==
    LET RECURSIVE Leftmost(_)
        Leftmost(current) ==
            IF current.isLeaf THEN current.keys[1]
            ELSE Leftmost(current.children[1])
    IN  Leftmost(At(node.children, i))

getPredecessor(node, i) ==
    LET RECURSIVE Rightmost(_)
        Rightmost(current) ==
            IF current.isLeaf THEN current.keys[Len(current.keys)]
            ELSE Rightmost(current.children[Len(current.children)])
    IN  Rightmost(At(node.children, i))

getSuccessor(node, i) ==
    LET RECURSIVE Leftmost(_)
        Leftmost(current) ==
            IF current.isLeaf THEN current.keys[1]
            ELSE Leftmost(current.children[1])
    IN  Leftmost(At(node.children, i + 1))

borrowFromPrev(node, childIndex) ==
    LET child == At(node.children, childIndex)
        sibling == At(node.children, childIndex - 1)
        newChild == [child EXCEPT
            !.keys = <<At(node.keys, childIndex - 1)>> \o child.keys,
            !.children = IF child.isLeaf THEN child.children
                         ELSE <<sibling.children[Len(sibling.children)]>>
                              \o child.children]
        newSibling == [sibling EXCEPT
            !.keys = SubSeq(sibling.keys, 1, Len(sibling.keys) - 1),
            !.children = IF child.isLeaf THEN sibling.children
                         ELSE SubSeq(sibling.children, 1,
                                     Len(sibling.children) - 1)]
    IN  [node EXCEPT
            !.keys = SetAt(node.keys, childIndex - 1,
                           sibling.keys[Len(sibling.keys)]),
            !.children = SetAt(SetAt(node.children, childIndex, newChild),
                               childIndex - 1, newSibling)]

borrowFromNext(node, childIndex) ==
    LET child == At(node.children, childIndex)
        sibling == At(node.children, childIndex + 1)
        newChild == [child EXCEPT
            !.keys = child.keys \o <<At(node.keys, childIndex)>>,
            !.children = IF child.isLeaf THEN child.children
                         ELSE child.children \o <<sibling.children[1]>>]
        newSibling == [sibling EXCEPT
            !.keys = Tail(sibling.keys),
            !.children = IF child.isLeaf THEN sibling.children
                         ELSE Tail(sibling.children)]
    IN  [node EXCEPT
            !.keys = SetAt(node.keys, childIndex, sibling.keys[1]),
            !.children = SetAt(SetAt(node.children, childIndex, newChild),
                               childIndex + 1, newSibling)]

\* Variant of merge that leaves the separator key in the parent.
mergeKeepSeparator(node, i) ==
    LET child == At(node.children, i)
        sibling == At(node.children, i + 1)
        merged == [child EXCEPT
            !.keys = child.keys \o <<At(node.keys, i)>> \o sibling.keys,
            !.children = IF child.isLeaf THEN child.children
                         ELSE child.children \o sibling.children]
    IN  [node EXCEPT
            !.children = SpliceOut(SetAt(node.children, i, merged), i + 1)]

merge(node, i) ==
    LET child == At(node.children, i)
        sibling == At(node.children, i + 1)
        merged == [child EXCEPT
            !.keys = child.keys \o <<At(node.keys, i)>> \o sibling.keys,
            !.children = IF child.isLeaf THEN child.children
                         ELSE child.children \o sibling.children]
    IN  [node EXCEPT
            !.keys = SpliceOut(node.keys, i),
            !.children = SpliceOut(SetAt(node.children, i, merged), i + 1)]

fill(node, i) ==
    LET t == MIN_DEGREE
    IN  IF i # 0 /\ Len(At(node.children, i - 1).keys) >= t
            THEN borrowFromPrev(node, i)
        ELSE IF i # Len(node.children) - 1
                /\ Len(At(node.children, i + 1).keys) >= t
            THEN borrowFromNext(node, i)
        ELSE IF i # Len(node.children) - 1
            THEN merge(node, i)
        ELSE merge(node, i - 1)

\* if (children[i].keys.length < MIN_DEGREE - 1) fill(node, i)
fillIfUnderflow(node, i) ==
    IF i < Len(node.children)
       /\ Len(At(node.children, i).keys) < MIN_DEGREE - 1
    THEN fill(node, i)
    ELSE node

RECURSIVE deleteFromNode(_, _)
RECURSIVE deleteFromInternalNode(_, _, _)

\* deleteFromNode, last block: recurse into child i, then repair it
descendAndRepair(node, key, i) ==
    IF i < Len(node.children)
    THEN fillIfUnderflow(
            [node EXCEPT !.children =
                SetAt(node.children, i, deleteFromNode(At(node.children, i), key))],
            i)
    ELSE node

deleteFromNode(node, key) ==
    LET i == ScanUp(node.keys, key, 0)
    IN  IF i < Len(node.keys) /\ key = At(node.keys, i)
        THEN IF node.isLeaf
             THEN [node EXCEPT !.keys = SpliceOut(node.keys, i)]
             ELSE deleteFromInternalNode(node, key, i)
        ELSE IF node.isLeaf THEN node
        ELSE IF Len(At(node.children, i).keys) < MIN_DEGREE - 1
             THEN LET filled == fill(node, i)
                      newI == ScanUp(filled.keys, key, 0)
                  IN  IF newI < Len(filled.keys) /\ key = At(filled.keys, newI)
                      THEN deleteFromInternalNode(filled, key, newI)
                      ELSE descendAndRepair(filled, key, newI)
             ELSE descendAndRepair(node, key, i)

deleteFromInternalNode(node, key, i) ==
    LET t == MIN_DEGREE
    IN  IF Len(At(node.children, i).keys) >= t
        THEN LET predecessor == getPredecessor(node, i)
             IN  fillIfUnderflow(
                    [node EXCEPT
                        !.keys = SetAt(node.keys, i, predecessor),
                        !.children = SetAt(node.children, i,
                            deleteFromNode(At(node.children, i), predecessor))],
                    i)
        ELSE IF Len(At(node.children, i + 1).keys) >= t
        THEN LET successor == getSuccessor(node, i)
             IN  fillIfUnderflow(
                    [node EXCEPT
                        !.keys = SetAt(node.keys, i, successor),
                        !.children = SetAt(node.children, i + 1,
                            deleteFromNode(At(node.children, i + 1), successor))],
                    i + 1)
        ELSE descendAndRepair(merge(node, i), key, i)

\* Variant of bTreeDeleteSingleValue that keeps a root leaf left without keys.
bTreeDeleteKeepEmptyLeaf(startRoot, key) ==
    IF startRoot = Nil THEN Nil
    ELSE LET btreeRoot == deleteFromNode(startRoot, key)
         IN  IF Len(btreeRoot.keys) = 0 /\ ~btreeRoot.isLeaf
                /\ Len(btreeRoot.children) > 0
             THEN At(btreeRoot.children, 0)
             ELSE btreeRoot

\* bTreeOperations.ts deleteSingleValue
bTreeDeleteSingleValue(startRoot, key) ==
    IF startRoot = Nil THEN Nil
    ELSE LET btreeRoot == deleteFromNode(startRoot, key)
         IN  IF Len(btreeRoot.keys) = 0
             THEN IF ~btreeRoot.isLeaf /\ Len(btreeRoot.children) > 0
                  THEN At(btreeRoot.children, 0)
                  ELSE Nil
             ELSE btreeRoot

deleteBTreeWithSteps(startRoot, values) ==
    IF values = <<>> \/ startRoot = Nil THEN startRoot
    ELSE FoldValues(bTreeDeleteSingleValue, startRoot, values)

(***************************************************************************)
(* The store with the B-Tree engine.                                       *)
(***************************************************************************)
Keys == 1..MaxKey
KeyLists(n) ==
    {s \in UNION {[1..k -> Keys] : k \in 0..n} :
        \A i, j \in DOMAIN s : i # j => s[i] # s[j]}

BTreeBuild ==
    /\ family = "btree" /\ root = Nil
    /\ \E values \in KeyLists(MaxKeyBuild) :
          /\ CallStoring("build", root, buildBTree(values), Range(values))
          /\ hit' = (values # <<>>)

BTreeBuildWithSteps ==
    /\ family = "btree" /\ root = Nil
    /\ \E values \in KeyLists(MaxKeyBuild) :
          /\ CallStoring("buildWithSteps", root, buildBTreeWithSteps(values), Range(values))
          /\ hit' = (values # <<>>)

BTreeInsert ==
    /\ family = "btree" /\ root # Nil
    /\ \E values \in KeyLists(MaxKeyInput) :
          /\ CallStoring("insert", root, insertBTreeWithSteps(root, values),
                         stored \cup Range(values))
          /\ hit' = (BTreeKeys(root') # BTreeKeys(root))

BTreeDelete ==
    /\ family = "btree" /\ root # Nil
    /\ \E values \in KeyLists(MaxKeyInput) :
          /\ CallStoring("delete", root, deleteBTreeWithSteps(root, values),
                         stored \ Range(values))
          /\ hit' = (BTreeKeys(root') # BTreeKeys(root))

InitBTree ==
    /\ family = "btree"
    /\ root = Nil
    /\ op = "init"
    /\ hit = FALSE
    /\ threw = FALSE
    /\ trace = <<>>
    /\ query = NoQuery
    /\ degree \in 2..MaxDegree
    /\ stored = {}
    /\ intact = TRUE
    /\ InitIds
    /\ InitStore

NextBTree == BTreeBuild \/ BTreeBuildWithSteps \/ BTreeInsert \/ BTreeDelete

SpecBTree == InitBTree /\ [][NextBTree]_vars

(***************************************************************************)
(* Red-Black engine: redBlackTree_v2.ts (build), redBlackOperations.ts     *)
(* (insert, delete).  The engine works on nodes with parent pointers that  *)
(* it mutates in place: here a heap h maps node references 1..Len(h) to    *)
(* [value, color, left, right, parent], 0 is null, and an engine state is  *)
(* [h, root].  The store holds the parent-free clone.                      *)
(***************************************************************************)
RBTreeNode(v, c, l, r) == [value |-> v, color |-> c, left |-> l, right |-> r]

EmptyRB == [h |-> <<>>, root |-> 0]

RECURSIVE convertToRBTree(_, _, _)
convertToRBTree(node, parent, h) ==
    IF node = Nil THEN [h |-> h, ref |-> 0]
    ELSE LET me == Len(h) + 1
             h1 == Append(h, [value |-> node.value, color |-> node.color,
                              left |-> 0, right |-> 0, parent |-> parent])
             l == convertToRBTree(node.left, me, h1)
             h2 == [l.h EXCEPT ![me].left = l.ref]
             r == convertToRBTree(node.right, me, h2)
         IN  [h |-> [r.h EXCEPT ![me].right = r.ref], ref |-> me]

RECURSIVE cloneForVisualization(_, _)
cloneForVisualization(h, node) ==
    IF node = 0 THEN Nil
    ELSE RBTreeNode(h[node].value, h[node].color,
                    cloneForVisualization(h, h[node].left),
                    cloneForVisualization(h, h[node].right))

\* the parent's link to node is redirected to child (or the root is)
Relink(st, node, child) ==
    LET p == st.h[node].parent
    IN  IF p = 0 THEN [st EXCEPT !.root = child]
        ELSE IF node = st.h[p].left
             THEN [st EXCEPT !.h[p].left = child]
             ELSE [st EXCEPT !.h[p].right = child]

rbRotateLeft(st, node) ==
    LET h == st.h
        rightChild == h[node].right
        inner == h[rightChild].left
        h1 == [h EXCEPT ![node].right = inner]
        h2 == IF inner # 0 THEN [h1 EXCEPT ![inner].parent = node] ELSE h1
        h3 == [h2 EXCEPT ![rightChild].parent = h[node].parent]
        st4 == Relink([st EXCEPT !.h = h3], node, rightChild)
    IN  [st4 EXCEPT !.h[rightChild].left = node, !.h[node].parent = rightChild]

rbRotateRight(st, node) ==
    LET h == st.h
        leftChild == h[node].left
        inner == h[leftChild].right
        h1 == [h EXCEPT ![node].left = inner]
        h2 == IF inner # 0 THEN [h1 EXCEPT ![inner].parent = node] ELSE h1
        h3 == [h2 EXCEPT ![leftChild].parent = h[node].parent]
        p == h[node].parent
        st4 == IF p = 0 THEN [h |-> h3, root |-> leftChild]
               ELSE IF node = h3[p].right
                    THEN [h |-> [h3 EXCEPT ![p].right = leftChild], root |-> st.root]
                    ELSE [h |-> [h3 EXCEPT ![p].left = leftChild], root |-> st.root]
    IN  [st4 EXCEPT !.h[leftChild].right = node, !.h[node].parent = leftChild]

\* the while loop of fixViolations
RECURSIVE fixViolationsLoop(_, _)
fixViolationsLoop(st, current) ==
    LET h == st.h
        parent == h[current].parent
    IN  IF parent = 0 \/ h[parent].color # "red" THEN st
        ELSE LET grandParent == h[parent].parent
             IN  IF grandParent = 0 THEN st
                 ELSE LET onLeft == parent = h[grandParent].left
                          uncle == IF onLeft THEN h[grandParent].right
                                   ELSE h[grandParent].left
                      IN  IF uncle # 0 /\ h[uncle].color = "red"
                          THEN fixViolationsLoop(
                                  [st EXCEPT !.h[parent].color = "black",
                                             !.h[uncle].color = "black",
                                             !.h[grandParent].color = "red"],
                                  grandParent)
                          ELSE LET inner == IF onLeft THEN current = h[parent].right
                                            ELSE current = h[parent].left
                                   cur == IF inner THEN parent ELSE current
                                   st1 == IF ~inner THEN st
                                          ELSE IF onLeft THEN rbRotateLeft(st, parent)
                                          ELSE rbRotateRight(st, parent)
                                   st2 == [st1 EXCEPT
                                             !.h[st1.h[cur].parent].color = "black",
                                             !.h[grandParent].color = "red"]
                                   st3 == IF onLeft THEN rbRotateRight(st2, grandParent)
                                          ELSE rbRotateLeft(st2, grandParent)
                               IN  fixViolationsLoop(st3, cur)

\* Variant of fixViolations that does not recolor the root afterwards.
fixViolationsRootKept(st, node) == fixViolationsLoop(st, node)

fixViolations(st, node) ==
    LET fixed == fixViolationsLoop(st, node)
    IN  [fixed EXCEPT !.h[fixed.root].color = "black"]

\* the descent of insertNode: the last node visited
RECURSIVE rbDescend(_, _, _)
rbDescend(h, current, value) ==
    LET next == IF value < h[current].value THEN h[current].left
                ELSE h[current].right
    IN  IF value = h[current].value \/ next = 0 THEN current
        ELSE rbDescend(h, next, value)

rbInsertNode(st, value) ==
    IF st.root = 0
    THEN [h |-> Append(st.h, [value |-> value, color |-> "black",
                              left |-> 0, right |-> 0, parent |-> 0]),
          root |-> Len(st.h) + 1]
    ELSE LET parent == rbDescend(st.h, st.root, value)
             newNode == Len(st.h) + 1
             h1 == Append(st.h, [value |-> value, color |-> "red",
                                 left |-> 0, right |-> 0, parent |-> parent])
             h2 == IF value < h1[parent].value
                   THEN [h1 EXCEPT ![parent].left = newNode]
                   ELSE [h1 EXCEPT ![parent].right = newNode]
         IN  IF value = st.h[parent].value THEN st
             ELSE fixViolations([h |-> h2, root |-> st.root], newNode)

buildRedBlackTree(values) ==
    IF values = <<>> THEN Nil
    ELSE LET st == FoldValues(rbInsertNode, EmptyRB, values)
         IN  cloneForVisualization(st.h, st.root)

\* the animated build runs the same statements and records steps
buildRedBlackTreeWithSteps(values) ==
    IF values = <<>> THEN Nil
    ELSE LET st == FoldValues(rbInsertNode, EmptyRB, values)
         IN  cloneForVisualization(st.h, st.root)

insertRBWithSteps(startRoot, values) ==
    IF values = <<>> THEN startRoot
    ELSE LET c == convertToRBTree(startRoot, 0, <<>>)
             st == FoldValues(rbInsertNode, [h |-> c.h, root |-> c.ref], values)
         IN  cloneForVisualization(st.h, st.root)

RECURSIVE getMinValueNode(_, _)
getMinValueNode(h, node) ==
    IF h[node].left # 0 THEN getMinValueNode(h, h[node].left) ELSE node

IsRed(h, node) == node # 0 /\ h[node].color = "red"

RECURSIVE fixDoubleBlack(_, _, _)
fixDoubleBlack(st, node, parent) ==
    IF st.root = 0 \/ node = st.root \/ parent = 0 THEN st
    ELSE
    LET h == st.h
        sibling == IF node = h[parent].left THEN h[parent].right
                   ELSE h[parent].left
    IN  IF sibling = 0
            THEN fixDoubleBlack(st, parent, h[parent].parent)
        ELSE IF h[sibling].color = "red"
            THEN LET st1 == [st EXCEPT !.h[parent].color = "red",
                                       !.h[sibling].color = "black"]
                     st2 == IF sibling = h[parent].left
                            THEN rbRotateRight(st1, parent)
                            ELSE rbRotateLeft(st1, parent)
                 IN  fixDoubleBlack(st2, node, parent)
        ELSE
        LET leftNephew == h[sibling].left
            rightNephew == h[sibling].right
        IN  IF IsRed(h, leftNephew) \/ IsRed(h, rightNephew)
            THEN IF sibling = h[parent].left
                 THEN IF IsRed(h, leftNephew)
                      THEN rbRotateRight(
                              [st EXCEPT !.h[leftNephew].color = h[sibling].color,
                                         !.h[sibling].color = h[parent].color,
                                         !.h[parent].color = "black"],
                              parent)
                      ELSE rbRotateRight(
                              rbRotateLeft(
                                 [st EXCEPT !.h[rightNephew].color = h[parent].color,
                                            !.h[parent].color = "black"],
                                 sibling),
                              parent)
                 ELSE IF IsRed(h, rightNephew)
                      THEN rbRotateLeft(
                              [st EXCEPT !.h[rightNephew].color = h[sibling].color,
                                         !.h[sibling].color = h[parent].color,
                                         !.h[parent].color = "black"],
                              parent)
                      ELSE rbRotateLeft(
                              rbRotateRight(
                                 [st EXCEPT !.h[leftNephew].color = h[parent].color,
                                            !.h[parent].color = "black"],
                                 sibling),
                              parent)
            ELSE IF h[parent].color = "black"
                 THEN fixDoubleBlack([st EXCEPT !.h[sibling].color = "red"],
                                     parent, h[parent].parent)
                 ELSE [st EXCEPT !.h[sibling].color = "red",
                                 !.h[parent].color = "black"]

\* deleteRBWithSteps: the search loop; 0 when the value is absent
RECURSIVE rbFind(_, _, _)
rbFind(h, current, value) ==
    IF current = 0 \/ value = h[current].value THEN current
    ELSE IF value < h[current].value THEN rbFind(h, h[current].left, value)
    ELSE rbFind(h, h[current].right, value)

\* deleteRBWithSteps: a node with at most one child is replaced by it
rbTransplant(st, nodeToDelete, replacement) ==
    LET p == st.h[nodeToDelete].parent
        st1 == IF p = 0 THEN [st EXCEPT !.root = replacement]
               ELSE IF nodeToDelete = st.h[p].left
                    THEN [st EXCEPT !.h[p].left = replacement]
                    ELSE [st EXCEPT !.h[p].right = replacement]
    IN  IF replacement # 0 THEN [st1 EXCEPT !.h[replacement].parent = p]
        ELSE st1

\* deleteRBWithSteps: the two-children case unlinks the in-order successor
rbRemoveSuccessor(st, nodeToDelete) ==
    LET h == st.h
        successor == getMinValueNode(h, h[nodeToDelete].right)
        replacement == h[successor].right
        sp == h[successor].parent
        h1 == [h EXCEPT ![nodeToDelete].value = h[successor].value]
        h2 == IF sp = nodeToDelete
              THEN [h1 EXCEPT ![nodeToDelete].right = replacement]
              ELSE [h1 EXCEPT ![sp].left = replacement]
        h3 == IF replacement # 0 THEN [h2 EXCEPT ![replacement].parent = sp]
              ELSE h2
    IN  [st |-> [st EXCEPT !.h = h3], replacement |-> replacement,
         nodeColor |-> h[successor].color]

deleteRBWithSteps(startRoot, value) ==
    IF startRoot = Nil THEN startRoot
    ELSE
    LET c == convertToRBTree(startRoot, 0, <<>>)
        st0 == [h |-> c.h, root |-> c.ref]
        nodeToDelete == rbFind(st0.h, st0.root, value)
    IN  IF nodeToDelete = 0 THEN startRoot
        ELSE
        LET n == st0.h[nodeToDelete]
            removed ==
                IF n.left = 0
                THEN [st |-> rbTransplant(st0, nodeToDelete, n.right),
                      replacement |-> n.right, nodeColor |-> n.color]
                ELSE IF n.right = 0
                THEN [st |-> rbTransplant(st0, nodeToDelete, n.left),
                      replacement |-> n.left, nodeColor |-> n.color]
                ELSE rbRemoveSuccessor(st0, nodeToDelete)
            replacement == removed.replacement
            st1 == IF removed.nodeColor # "black" THEN removed.st
                   ELSE IF IsRed(removed.st.h, replacement)
                        THEN [removed.st EXCEPT !.h[replacement].color = "black"]
                   \* replacement?.parent is undefined when replacement is null
                   ELSE fixDoubleBlack(removed.st, replacement,
                                       IF replacement = 0 THEN 0
                                       ELSE removed.st.h[replacement].parent)
            st2 == IF st1.root # 0 THEN [st1 EXCEPT !.h[st1.root].color = "black"]
                   ELSE st1
        IN  cloneForVisualization(st2.h, st2.root)

(***************************************************************************)
(* The store with the Red-Black engine.  SpecRBIns leaves delete out.      *)
(***************************************************************************)
RBValues == 1..MaxRBVal
RBLists(n) ==
    {s \in UNION {[1..k -> RBValues] : k \in 0..n} :
        \A i, j \in DOMAIN s : i # j => s[i] # s[j]}

RECURSIVE RBTreeValues(_)
RBTreeValues(node) ==
    IF node = Nil THEN {}
    ELSE {node.value} \cup RBTreeValues(node.left) \cup RBTreeValues(node.right)

RBBuild ==
    /\ family = "rb" /\ root = Nil
    /\ \E values \in RBLists(MaxRBBuild) :
          /\ CallStoring("build", root, buildRedBlackTree(values), Range(values))
          /\ hit' = (values # <<>>)

RBBuildWithSteps ==
    /\ family = "rb" /\ root = Nil
    /\ \E values \in RBLists(MaxRBBuild) :
          /\ CallStoring("buildWithSteps", root, buildRedBlackTreeWithSteps(values), Range(values))
          /\ hit' = (values # <<>>)

RBInsert ==
    /\ family = "rb" /\ root # Nil
    /\ \E values \in RBLists(MaxRBInput) :
          /\ CallStoring("insert", root, insertRBWithSteps(root, values),
                         stored \cup Range(values))
          /\ hit' = (RBTreeValues(root') # RBTreeValues(root))

\* parseFloat(input) reads one value
RBDelete ==
    /\ family = "rb" /\ root # Nil
    /\ \E value \in RBValues :
          /\ CallStoring("delete", root, deleteRBWithSteps(root, value),
                         stored \ {value})
          /\ hit' = (RBTreeValues(root') # RBTreeValues(root))

InitRB ==
    /\ family = "rb"
    /\ root = Nil
    /\ op = "init"
    /\ hit = FALSE
    /\ threw = FALSE
    /\ trace = <<>>
    /\ query = NoQuery
    /\ degree = 3
    /\ stored = {}
    /\ intact = TRUE
    /\ InitIds
    /\ InitStore

NextRBIns == RBBuild \/ RBBuildWithSteps \/ RBInsert

SpecRBIns == InitRB /\ [][NextRBIns]_vars

NextRB == RBBuild \/ RBBuildWithSteps \/ RBInsert \/ RBDelete

SpecRB == InitRB /\ [][NextRB]_vars

(***************************************************************************)
(* B+ Tree engine: bPlusTree.ts (build), bPlusTreeOperations.ts (insert,   *)
(* delete).  A node is [keys, children, isLeaf, next].  The engine assigns *)
(* next in three places only: null when a node is created or cloned, the   *)
(* new right half in a leaf split (which inherits the old target), and the *)
(* absorbed sibling's target in a leaf merge.  A non-null next is thus     *)
(* always the leaf to the right, and next is kept as a flag: TRUE for a    *)
(* link to the right neighbour, FALSE for null.                            *)
(***************************************************************************)
BPlusTreeNode(keys, children, isLeaf, next) ==
    [keys |-> keys, children |-> children, isLeaf |-> isLeaf, next |-> next]

EmptyBPlusLeaf == BPlusTreeNode(<<>>, <<>>, TRUE, FALSE)

RECURSIVE cloneBPlusTreeNode(_)
cloneBPlusTreeNode(node) ==
    IF node = Nil THEN Nil
    ELSE BPlusTreeNode(node.keys,
                       [c \in DOMAIN node.children |->
                            cloneBPlusTreeNode(node.children[c])],
                       node.isLeaf, FALSE)

\* while (i < keys.length && key >= keys[i]) i++
RECURSIVE ScanPast(_, _, _)
ScanPast(keys, key, i) ==
    IF i < Len(keys) /\ key >= At(keys, i) THEN ScanPast(keys, key, i + 1) ELSE i

RECURSIVE BPlusLeafKeys(_)
BPlusLeafKeys(node) ==
    IF node = Nil THEN <<>>
    ELSE IF node.isLeaf THEN node.keys
    ELSE LET RECURSIVE Concat(_)
             Concat(c) == IF c > Len(node.children) THEN <<>>
                          ELSE BPlusLeafKeys(node.children[c]) \o Concat(c + 1)
         IN  Concat(1)

RECURSIVE bPlusKeyExists(_, _)
bPlusKeyExists(node, key) ==
    IF node = Nil THEN FALSE
    ELSE IF node.isLeaf THEN \E k \in DOMAIN node.keys : node.keys[k] = key
    ELSE bPlusKeyExists(At(node.children, ScanPast(node.keys, key, 0)), key)

\* Variant of bPlusSplitChild that moves the middle key of a leaf up instead
\* of copying it.
bPlusSplitChildMoved(parent, index) ==
    LET fullChild == At(parent.children, index)
        t == MIN_DEGREE
        newChild == BPlusTreeNode(Drop(fullChild.keys, t),
                                  IF fullChild.isLeaf THEN <<>>
                                  ELSE Drop(fullChild.children, t),
                                  fullChild.isLeaf,
                                  fullChild.isLeaf /\ fullChild.next)
        kept == Take(fullChild.keys, t)
        left == BPlusTreeNode(SubSeq(kept, 1, Len(kept) - 1),
                              IF fullChild.isLeaf THEN fullChild.children
                              ELSE Take(fullChild.children, t),
                              fullChild.isLeaf,
                              IF fullChild.isLeaf THEN TRUE ELSE fullChild.next)
    IN  [parent EXCEPT
            !.keys = SpliceIn(parent.keys, index, kept[Len(kept)]),
            !.children = SpliceIn(SetAt(parent.children, index, left),
                                  index + 1, newChild)]

bPlusSplitChild(parent, index) ==
    LET fullChild == At(parent.children, index)
        t == MIN_DEGREE
        newChild == BPlusTreeNode(Drop(fullChild.keys, t),
                                  IF fullChild.isLeaf THEN <<>>
                                  ELSE Drop(fullChild.children, t),
                                  fullChild.isLeaf,
                                  fullChild.isLeaf /\ fullChild.next)
        kept == Take(fullChild.keys, t)
        midKey == IF fullChild.isLeaf THEN newChild.keys[1] ELSE kept[Len(kept)]
        left == BPlusTreeNode(IF fullChild.isLeaf THEN kept
                              ELSE SubSeq(kept, 1, Len(kept) - 1),
                              IF fullChild.isLeaf THEN fullChild.children
                              ELSE Take(fullChild.children, t),
                              fullChild.isLeaf,
                              IF fullChild.isLeaf THEN TRUE ELSE fullChild.next)
    IN  [parent EXCEPT
            !.keys = SpliceIn(parent.keys, index, midKey),
            !.children = SpliceIn(SetAt(parent.children, index, left),
                                  index + 1, newChild)]

RECURSIVE bPlusInsertNonFull(_, _)
bPlusInsertNonFull(node, key) ==
    LET i == ScanDown(node.keys, key, Len(node.keys) - 1)
    IN  IF node.isLeaf
        THEN [node EXCEPT !.keys = SpliceIn(node.keys, i + 1, key)]
        ELSE LET c == i + 1
                 full == Len(At(node.children, c).keys) = 2 * MIN_DEGREE - 1
                 split == IF full THEN bPlusSplitChild(node, c) ELSE node
                 j == IF full /\ key > At(split.keys, c) THEN c + 1 ELSE c
             IN  [split EXCEPT !.children =
                    SetAt(split.children, j,
                          bPlusInsertNonFull(At(split.children, j), key))]

insertBPlusTree(bplusRoot, key) ==
    IF Len(bplusRoot.keys) = 2 * MIN_DEGREE - 1
    THEN bPlusInsertNonFull(
            bPlusSplitChild(BPlusTreeNode(<<>>, <<bplusRoot>>, FALSE, FALSE), 0),
            key)
    ELSE bPlusInsertNonFull(bplusRoot, key)

buildBPlusTree(values) ==
    IF values = <<>> THEN Nil
    ELSE FoldValues(insertBPlusTree, EmptyBPlusLeaf, values)

\* bPlusTree.ts insertBPlusTreeWithSteps and bPlusTreeOperations.ts
\* insertSingleValue: the same insertion on a clone of the root
bPlusInsertSingleValue(startRoot, key) ==
    insertBPlusTree(cloneBPlusTreeNode(startRoot), key)

buildBPlusTreeWithSteps(values) ==
    IF values = <<>> THEN Nil
    ELSE FoldValues(bPlusInsertSingleValue, EmptyBPlusLeaf, values)

\* bPlusTreeOperations.ts: the loop body of insertBPlusTreeWithSteps
bPlusInsertExistingSkipped(bplusRoot, value) ==
    IF bPlusKeyExists(bplusRoot, value) THEN bplusRoot
    ELSE bPlusInsertSingleValue(bplusRoot, value)

insertBPlusTreeWithSteps(startRoot, values) ==
    IF values = <<>> THEN startRoot
    ELSE FoldValues(bPlusInsertExistingSkipped,
                    IF startRoot = Nil THEN EmptyBPlusLeaf
                    ELSE cloneBPlusTreeNode(startRoot),
                    values)

\* null is 0: the values are positive
RECURSIVE getSmallestKey(_)
getSmallestKey(node) ==
    IF ~node.isLeaf /\ Len(node.children) > 0
    THEN getSmallestKey(node.children[1])
    ELSE IF Len(node.keys) > 0 THEN node.keys[1] ELSE 0

\* Variant of updateParentKeys that leaves the keys as they are.
updateParentKeysSkipped(node) == node

updateParentKeys(node) ==
    IF node.isLeaf THEN node
    ELSE [node EXCEPT !.keys =
            [i \in DOMAIN node.keys |->
                IF i + 1 <= Len(node.children)
                   /\ getSmallestKey(node.children[i + 1]) # 0
                THEN getSmallestKey(node.children[i + 1])
                ELSE node.keys[i]]]

bPlusBorrowFromPrev(node, childIndex) ==
    LET child == At(node.children, childIndex)
        sibling == At(node.children, childIndex - 1)
        moved == sibling.keys[Len(sibling.keys)]
        newChild == IF child.isLeaf
            THEN [child EXCEPT !.keys = <<moved>> \o child.keys]
            ELSE [child EXCEPT
                    !.keys = <<At(node.keys, childIndex - 1)>> \o child.keys,
                    !.children = <<sibling.children[Len(sibling.children)]>>
                                 \o child.children]
        newSibling == [sibling EXCEPT
            !.keys = SubSeq(sibling.keys, 1, Len(sibling.keys) - 1),
            !.children = IF child.isLeaf THEN sibling.children
                         ELSE SubSeq(sibling.children, 1,
                                     Len(sibling.children) - 1)]
    IN  [node EXCEPT
            !.keys = SetAt(node.keys, childIndex - 1, moved),
            !.children = SetAt(SetAt(node.children, childIndex, newChild),
                               childIndex - 1, newSibling)]

bPlusBorrowFromNext(node, childIndex) ==
    LET child == At(node.children, childIndex)
        sibling == At(node.children, childIndex + 1)
        newSibling == [sibling EXCEPT
            !.keys = Tail(sibling.keys),
            !.children = IF child.isLeaf THEN sibling.children
                         ELSE Tail(sibling.children)]
        newChild == IF child.isLeaf
            THEN [child EXCEPT !.keys = child.keys \o <<sibling.keys[1]>>]
            ELSE [child EXCEPT
                    !.keys = child.keys \o <<At(node.keys, childIndex)>>,
                    !.children = child.children \o <<sibling.children[1]>>]
    IN  [node EXCEPT
            !.keys = SetAt(node.keys, childIndex,
                           IF child.isLeaf THEN newSibling.keys[1]
                           ELSE sibling.keys[1]),
            !.children = SetAt(SetAt(node.children, childIndex, newChild),
                               childIndex + 1, newSibling)]

bPlusMerge(node, i) ==
    LET child == At(node.children, i)
        sibling == At(node.children, i + 1)
        merged == IF child.isLeaf
            THEN [child EXCEPT !.keys = child.keys \o sibling.keys,
                               !.next = sibling.next]
            ELSE [child EXCEPT
                    !.keys = child.keys \o <<At(node.keys, i)>> \o sibling.keys,
                    !.children = child.children \o sibling.children]
    IN  [node EXCEPT
            !.keys = SpliceOut(node.keys, i),
            !.children = SpliceOut(SetAt(node.children, i, merged), i + 1)]

bPlusFill(node, i) ==
    LET t == MIN_DEGREE
    IN  IF i # 0 /\ Len(At(node.children, i - 1).keys) > t - 1
            THEN bPlusBorrowFromPrev(node, i)
        ELSE IF i # Len(node.children) - 1
                /\ Len(At(node.children, i + 1).keys) > t - 1
            THEN bPlusBorrowFromNext(node, i)
        ELSE IF i # Len(node.children) - 1
            THEN bPlusMerge(node, i)
        ELSE bPlusMerge(node, i - 1)

RECURSIVE bPlusDeleteFromNode(_, _)
bPlusDeleteFromNode(node, key) ==
    IF node.isLeaf
    THEN [node EXCEPT !.keys = SelectSeq(node.keys, LAMBDA k : k # key)]
    ELSE LET i0 == ScanPast(node.keys, key, 0)
             needsFill == Len(At(node.children, i0).keys) <= MIN_DEGREE - 1
             filled == IF needsFill THEN bPlusFill(node, i0) ELSE node
             i == IF needsFill THEN ScanPast(filled.keys, key, 0) ELSE i0
         IN  IF i < Len(filled.children)
             THEN updateParentKeys(
                    [filled EXCEPT !.children =
                        SetAt(filled.children, i,
                              bPlusDeleteFromNode(At(filled.children, i), key))])
             ELSE filled

\* bPlusTreeOperations.ts deleteSingleValue
bPlusDeleteSingleValue(startRoot, key) ==
    IF startRoot = Nil THEN Nil
    ELSE LET cloned == cloneBPlusTreeNode(startRoot)
             bplusRoot == bPlusDeleteFromNode(cloned, key)
         IN  IF ~bPlusKeyExists(cloned, key) THEN cloned
             ELSE IF Len(bplusRoot.keys) = 0
                  THEN IF ~bplusRoot.isLeaf /\ Len(bplusRoot.children) > 0
                       THEN At(bplusRoot.children, 0)
                       ELSE Nil
                  ELSE bplusRoot

deleteBPlusTreeWithSteps(startRoot, values) ==
    IF values = <<>> \/ startRoot = Nil THEN startRoot
    ELSE FoldValues(bPlusDeleteSingleValue, cloneBPlusTreeNode(startRoot), values)

(***************************************************************************)
(* The store with the B+ Tree engine.                                      *)
(***************************************************************************)
BPlusKeys == 1..MaxBPlusKey
BPlusKeyLists(n) ==
    {s \in UNION {[1..k -> BPlusKeys] : k \in 0..n} :
        \A i, j \in DOMAIN s : i # j => s[i] # s[j]}

BPlusBuild ==
    /\ family = "bplus" /\ root = Nil
    /\ \E values \in BPlusKeyLists(MaxKeyBuild) :
          /\ CallStoring("build", root, buildBPlusTree(values), Range(values))
          /\ hit' = (values # <<>>)

BPlusBuildWithSteps ==
    /\ family = "bplus" /\ root = Nil
    /\ \E values \in BPlusKeyLists(MaxKeyBuild) :
          /\ CallStoring("buildWithSteps", root,
                         buildBPlusTreeWithSteps(values), Range(values))
          /\ hit' = (values # <<>>)

BPlusInsert ==
    /\ family = "bplus" /\ root # Nil
    /\ \E values \in BPlusKeyLists(MaxKeyInput) :
          /\ CallStoring("insert", root, insertBPlusTreeWithSteps(root, values),
                         stored \cup Range(values))
          /\ hit' = (BPlusLeafKeys(root') # BPlusLeafKeys(root))

BPlusDelete ==
    /\ family = "bplus" /\ root # Nil
    /\ \E values \in BPlusKeyLists(MaxKeyInput) :
          /\ CallStoring("delete", root, deleteBPlusTreeWithSteps(root, values),
                         stored \ Range(values))
          /\ hit' = (BPlusLeafKeys(root') # BPlusLeafKeys(root))

InitBPlus ==
    /\ family = "bplus"
    /\ root = Nil
    /\ op = "init"
    /\ hit = FALSE
    /\ threw = FALSE
    /\ trace = <<>>
    /\ query = NoQuery
    /\ degree \in 2..MaxDegree
    /\ stored = {}
    /\ intact = TRUE
    /\ InitIds
    /\ InitStore

NextBPlus == BPlusBuild \/ BPlusBuildWithSteps \/ BPlusInsert \/ BPlusDelete

SpecBPlus == InitBPlus /\ [][NextBPlus]_vars

(***************************************************************************)
(* Trie engine: trieTree.ts.  A node is [children, isEndOfWord]; children  *)
(* is the Map from characters to child nodes, a function whose domain is   *)
(* the set of characters present.  parseInput keeps the words made of      *)
(* lowercase letters, in input order, duplicates included.  Insert and     *)
(* delete work on the nodes of the root they are passed and return that    *)
(* root.                                                                   *)
(***************************************************************************)
Chars == {"a", "b"}
Words == UNION {[1..k -> Chars] : k \in 1..MaxWordLen}
WordLists(n) == UNION {[1..k -> Words] : k \in 0..n}

TrieNode(children, isEndOfWord) ==
    [children |-> children, isEndOfWord |-> isEndOfWord]

EmptyTrieRoot == TrieNode(<<>>, FALSE)

\* the words a walk from node can complete
RECURSIVE TrieWords(_)
TrieWords(node) ==
    IF node = Nil THEN {}
    ELSE (IF node.isEndOfWord THEN {<<>>} ELSE {})
         \cup UNION {{<<c>> \o w : w \in TrieWords(node.children[c])} :
                        c \in DOMAIN node.children}

RECURSIVE insertWord(_, _)
insertWord(node, word) ==
    IF word = <<>> THEN [node EXCEPT !.isEndOfWord = TRUE]
    ELSE LET char == Head(word)
             child == IF char \in DOMAIN node.children
                      THEN node.children[char]
                      ELSE TrieNode(<<>>, FALSE)
         IN  [node EXCEPT !.children =
                [c \in DOMAIN node.children \cup {char} |->
                    IF c = char THEN insertWord(child, Tail(word))
                    ELSE node.children[c]]]

buildTrie(words) ==
    IF words = <<>> THEN Nil ELSE FoldValues(insertWord, EmptyTrieRoot, words)

\* insertWordWithSteps changes the trie as insertWord does
buildTrieWithSteps(words) ==
    IF words = <<>> THEN Nil ELSE FoldValues(insertWord, EmptyTrieRoot, words)

insertTrieWithSteps(trieRoot, words) ==
    IF words = <<>> THEN trieRoot
    ELSE FoldValues(insertWord,
                    IF trieRoot = Nil THEN EmptyTrieRoot ELSE trieRoot, words)

\* the kinds of the steps of a search: "start", one "char" per character
\* found, then "found", "prefix" (a prefix but not a complete word) or
\* "missing" (character not found); "empty" for a null root
searchTrieWithSteps(trieRoot, word) ==
    LET RECURSIVE Walk(_, _)
        Walk(current, i) ==
            IF i > Len(word)
            THEN IF current.isEndOfWord THEN <<"found">> ELSE <<"prefix">>
            ELSE IF word[i] \notin DOMAIN current.children THEN <<"missing">>
            ELSE <<"char">> \o Walk(current.children[word[i]], i + 1)
    IN  IF trieRoot = Nil THEN <<"empty">> ELSE <<"start">> \o Walk(trieRoot, 1)

\* Variant of deleteHelper that clears the end-of-word mark and removes no
\* node.
RECURSIVE deleteHelperUnmark(_, _, _)
deleteHelperUnmark(node, word, index) ==
    IF index = Len(word)
    THEN IF ~node.isEndOfWord THEN [node |-> node, remove |-> FALSE]
         ELSE [node |-> [node EXCEPT !.isEndOfWord = FALSE],
               remove |-> DOMAIN node.children = {}]
    ELSE LET char == word[index + 1]
         IN  IF char \notin DOMAIN node.children
             THEN [node |-> node, remove |-> FALSE]
             ELSE LET sub == deleteHelperUnmark(node.children[char], word,
                                                index + 1)
                  IN  [node |-> [node EXCEPT !.children[char] = sub.node],
                       remove |-> FALSE]

\* Variant of deleteHelper that lets the caller remove a childless node
\* even when it ends a word.
RECURSIVE deleteHelperEager(_, _, _)
deleteHelperEager(node, word, index) ==
    IF index = Len(word)
    THEN IF ~node.isEndOfWord THEN [node |-> node, remove |-> FALSE]
         ELSE [node |-> [node EXCEPT !.isEndOfWord = FALSE],
               remove |-> DOMAIN node.children = {}]
    ELSE LET char == word[index + 1]
         IN  IF char \notin DOMAIN node.children
             THEN [node |-> node, remove |-> FALSE]
             ELSE LET sub == deleteHelperEager(node.children[char], word,
                                               index + 1)
                  IN  IF sub.remove
                      THEN [node |-> [node EXCEPT !.children =
                                [c \in DOMAIN node.children \ {char} |->
                                    node.children[c]]],
                            remove |-> DOMAIN node.children = {char}]
                      ELSE [node |-> [node EXCEPT !.children[char] = sub.node],
                            remove |-> FALSE]

\* deleteWord's helper: the node after the call and the returned flag
\* (the caller may remove this node)
RECURSIVE deleteHelper(_, _, _)
deleteHelper(node, word, index) ==
    IF index = Len(word)
    THEN IF ~node.isEndOfWord THEN [node |-> node, remove |-> FALSE]
         ELSE [node |-> [node EXCEPT !.isEndOfWord = FALSE],
               remove |-> DOMAIN node.children = {}]
    ELSE LET char == word[index + 1]
         IN  IF char \notin DOMAIN node.children
             THEN [node |-> node, remove |-> FALSE]
             ELSE LET sub == deleteHelper(node.children[char], word, index + 1)
                  IN  IF sub.remove
                      THEN [node |-> [node EXCEPT !.children =
                                [c \in DOMAIN node.children \ {char} |->
                                    node.children[c]]],
                            remove |-> DOMAIN node.children = {char}
                                       /\ ~node.isEndOfWord]
                      ELSE [node |-> [node EXCEPT !.children[char] = sub.node],
                            remove |-> FALSE]

deleteWord(trieRoot, word) == deleteHelper(trieRoot, word, 0).node

\* the walk of deleteTrieWithSteps is the walk of the search
deleteTrieWithSteps(trieRoot, word) ==
    IF trieRoot = Nil THEN trieRoot
    ELSE LET walk == searchTrieWithSteps(trieRoot, word)
         IN  IF walk[Len(walk)] = "found" THEN deleteWord(trieRoot, word)
             ELSE trieRoot

(***************************************************************************)
(* The store with the Trie engine.                                         *)
(***************************************************************************)
TrieBuild ==
    /\ family = "trie" /\ root = Nil
    /\ \E words \in WordLists(MaxTrieBuild) :
          /\ CallStoring("build", root, buildTrie(words), Range(words))
          /\ hit' = (words # <<>>)

TrieBuildWithSteps ==
    /\ family = "trie" /\ root = Nil
    /\ \E words \in WordLists(MaxTrieBuild) :
          /\ CallStoring("buildWithSteps", root, buildTrieWithSteps(words),
                         Range(words))
          /\ hit' = (words # <<>>)

TrieInsert ==
    /\ family = "trie" /\ root # Nil
    /\ \E words \in WordLists(MaxTrieInput) :
          /\ Cardinality(stored \cup Range(words)) <= MaxTrieWords
          /\ CallMutating("insert", root, insertTrieWithSteps(root, words),
                          insertTrieWithSteps(root, words),
                          stored \cup Range(words))
          /\ hit' = (TrieWords(root') # TrieWords(root))

\* input.trim() is one word
TrieDelete ==
    /\ family = "trie" /\ root # Nil
    /\ \E word \in Words :
          /\ CallMutating("delete", root, deleteTrieWithSteps(root, word),
                          deleteTrieWithSteps(root, word), stored \ {word})
          /\ hit' = (TrieWords(root') # TrieWords(root))

InitTrie ==
    /\ family = "trie"
    /\ root = Nil
    /\ op = "init"
    /\ hit = FALSE
    /\ threw = FALSE
    /\ trace = <<>>
    /\ query = NoQuery
    /\ degree = 3
    /\ stored = {}
    /\ intact = TRUE
    /\ InitIds
    /\ InitStore

NextTrie == TrieBuild \/ TrieBuildWithSteps \/ TrieInsert \/ TrieDelete

SpecTrie == InitTrie /\ [][NextTrie]_vars

(***************************************************************************)
(* Searches.  A search returns its steps; a step is modelled by the kind   *)
(* of its message: "start" (Searching for v...), "compare", "node"         *)
(* (Searching in node [...]), "go" (which child and why), "empty", and the *)
(* terminal kinds "found" and "notFound" (for a Trie also "prefix" and     *)
(* "missing", see searchTrieWithSteps).                                    *)
(***************************************************************************)
\* bstOperations.ts and avlOperations.ts searchSingleValue (the same code)
searchSingleValue(startRoot, value) ==
    LET RECURSIVE Descend(_)
        Descend(current) ==
            IF current = Nil THEN <<"notFound">>
            ELSE IF value = current.value THEN <<"found">>
            ELSE <<"compare">>
                 \o Descend(IF value < current.value THEN current.left
                            ELSE current.right)
    IN  <<"start">> \o Descend(startRoot)

searchWithSteps(startRoot, values) ==
    IF values = <<>> \/ startRoot = Nil THEN <<>>
    ELSE LET RECURSIVE All(_)
             All(k) == IF k > Len(values) THEN <<>>
                       ELSE searchSingleValue(startRoot, values[k]) \o All(k + 1)
         IN  All(1)

searchAVLWithSteps(startRoot, values) ==
    IF values = <<>> \/ startRoot = Nil THEN <<>>
    ELSE LET RECURSIVE All(_)
             All(k) == IF k > Len(values) THEN <<>>
                       ELSE searchSingleValue(startRoot, values[k]) \o All(k + 1)
         IN  All(1)

\* parseFloat(input) reads one value
searchRBWithSteps(rbRoot, value) ==
    LET RECURSIVE Descend(_)
        Descend(current) ==
            IF current = Nil THEN <<"notFound">>
            ELSE <<"compare">>
                 \o (IF value = current.value THEN <<"found">>
                     ELSE Descend(IF value < current.value THEN current.left
                                  ELSE current.right))
    IN  IF rbRoot = Nil THEN <<"empty">> ELSE Descend(rbRoot)

\* bTreeOperations.ts searchSingleValue; children[i] past the end is
\* undefined and is treated as null
RECURSIVE bTreeSearchSingleValue(_, _)
bTreeSearchSingleValue(node, key) ==
    IF node = Nil THEN <<"notFound">>
    ELSE LET i == ScanUp(node.keys, key, 0)
         IN  <<"node">>
             \o (IF i < Len(node.keys) /\ key = At(node.keys, i) THEN <<"found">>
                 ELSE IF node.isLeaf THEN <<"notFound">>
                 ELSE <<"go">>
                      \o bTreeSearchSingleValue(
                            IF i < Len(node.children) THEN At(node.children, i)
                            ELSE Nil, key))

searchBTreeWithSteps(btreeRoot, values) ==
    IF values = <<>> \/ btreeRoot = Nil THEN <<>>
    ELSE LET RECURSIVE All(_)
             All(k) == IF k > Len(values) THEN <<>>
                       ELSE bTreeSearchSingleValue(btreeRoot, values[k])
                            \o All(k + 1)
         IN  All(1)

\* Variant of bPlusSearchSingleValue that goes left of a routing key equal
\* to the key searched.
RECURSIVE bPlusSearchLeftOfEqual(_, _)
bPlusSearchLeftOfEqual(node, key) ==
    IF node = Nil THEN <<"notFound">>
    ELSE <<"node">>
         \o (IF node.isLeaf
             THEN IF \E k \in DOMAIN node.keys : node.keys[k] = key
                  THEN <<"found">> ELSE <<"notFound">>
             ELSE LET i == ScanUp(node.keys, key, 0)
                  IN  <<"go">>
                      \o bPlusSearchLeftOfEqual(
                            IF i < Len(node.children) THEN At(node.children, i)
                            ELSE Nil, key))

\* bPlusTreeOperations.ts searchSingleValue: always down to a leaf
RECURSIVE bPlusSearchSingleValue(_, _)
bPlusSearchSingleValue(node, key) ==
    IF node = Nil THEN <<"notFound">>
    ELSE <<"node">>
         \o (IF node.isLeaf
             THEN IF \E k \in DOMAIN node.keys : node.keys[k] = key
                  THEN <<"found">> ELSE <<"notFound">>
             ELSE LET i == ScanPast(node.keys, key, 0)
                  IN  <<"go">>
                      \o bPlusSearchSingleValue(
                            IF i < Len(node.children) THEN At(node.children, i)
                            ELSE Nil, key))

searchBPlusTreeWithSteps(bplusRoot, values) ==
    IF values = <<>> \/ bplusRoot = Nil THEN <<>>
    ELSE LET RECURSIVE All(_)
             All(k) == IF k > Len(values) THEN <<>>
                       ELSE bPlusSearchSingleValue(bplusRoot, values[k])
                            \o All(k + 1)
         IN  All(1)

\* Sidebar.tsx handleSearch, with one value or word typed
SearchInputs ==
    CASE family \in {"bst", "avl"} -> Values
      [] family = "rb" -> RBValues
      [] family = "btree" -> Keys
      [] family = "bplus" -> BPlusKeys
      [] family = "trie" -> Words

Search ==
    /\ root # Nil
    /\ \E value \in SearchInputs :
          /\ op' = "search"
          /\ query' = value
          /\ trace' = CASE family = "bst" -> searchWithSteps(root, <<value>>)
                        [] family = "avl" -> searchAVLWithSteps(root, <<value>>)
                        [] family = "rb" -> searchRBWithSteps(root, value)
                        [] family = "btree" -> searchBTreeWithSteps(root, <<value>>)
                        [] family = "bplus" ->
                                searchBPlusTreeWithSteps(root, <<value>>)
                        [] family = "trie" -> searchTrieWithSteps(root, value)
          /\ hit' = FALSE
          /\ threw' = FALSE
          /\ UNCHANGED <<family, root, degree, stored, intact>>
          /\ UNCHANGED <<idvars, playvars>>

InitEngines ==
    /\ family \in {"bst", "avl", "rb", "btree", "bplus", "trie"}
    /\ root = Nil
    /\ op = "init"
    /\ hit = FALSE
    /\ threw = FALSE
    /\ trace = <<>>
    /\ query = NoQuery
    /\ degree \in IF family \in {"btree", "bplus"} THEN 2..MaxDegree ELSE {3}
    /\ stored = {}
    /\ intact = TRUE
    /\ InitIds
    /\ InitStore

NextEngines == NextBinary \/ NextBTree \/ NextRB \/ NextBPlus \/ NextTrie

SpecEngines == InitEngines /\ [][NextEngines]_vars

\* searches of Red-Black trees follow builds and inserts
NextSearch ==
    \/ NextBinary \/ NextBTree \/ NextBPlus \/ NextTrie
    \/ RBBuild \/ RBBuildWithSteps \/ RBInsert
    \/ Search

SpecSearch == InitEngines /\ [][NextSearch]_vars

(***************************************************************************)
(* The store with any of the engines for numeric values.                   *)
(***************************************************************************)
InitOrdered ==
    /\ family \in {"bst", "avl", "rb", "btree", "bplus"}
    /\ root = Nil
    /\ op = "init"
    /\ hit = FALSE
    /\ threw = FALSE
    /\ trace = <<>>
    /\ query = NoQuery
    /\ degree \in IF family \in {"btree", "bplus"} THEN 2..MaxDegree ELSE {3}
    /\ stored = {}
    /\ intact = TRUE
    /\ InitIds
    /\ InitStore

NextOrdered == NextBinary \/ NextBTree \/ NextRB \/ NextBPlus

SpecOrdered == InitOrdered /\ [][NextOrdered]_vars

(***************************************************************************)
(* Narrated inserts: the calls of bstOperations.ts insertWithSteps and     *)
(* redBlackOperations.ts insertRBWithSteps with the steps they return.  A  *)
(* step is a record: kind (which message it carries), value (the value     *)
(* being inserted), highlightIds, and tree when a snapshot is attached;    *)
(* BST steps also say which node they are about (node).                    *)
(* A node is named by its value, which no insert changes (the code names   *)
(* it by an id given at creation and kept by every clone).  Two history    *)
(* fields say what held when the step was pushed: appended is the content  *)
(* of its highlightIds array then, at is the tree the engine was working   *)
(* on then.                                                                *)
(***************************************************************************)
\* bstOperations.ts insertSingleValue, the steps of the walk: the values on
\* the path down to the node compared last, each step with a copy of the
\* path so far ([...path]); live is the working tree, not changed yet
RECURSIVE insertSingleValueWalk(_, _, _, _)
insertSingleValueWalk(current, value, path, live) ==
    IF current = Nil THEN <<>>
    ELSE LET here == Append(path, current.value)
         IN  IF value = current.value
             THEN <<[kind |-> "exists", value |-> value, node |-> current.value,
                     highlightIds |-> here, appended |-> here, at |-> live]>>
             ELSE <<[kind |-> "comparing", value |-> value, node |-> current.value,
                     highlightIds |-> here, appended |-> here, at |-> live]>>
                  \o insertSingleValueWalk(
                        IF value < current.value THEN current.left
                        ELSE current.right, value, here, live)

\* bstOperations.ts insertSingleValue, the steps it returns: the walk, then
\* the step pushed after the new node was attached
insertSingleValueSteps(startRoot, value) ==
    LET walk == insertSingleValueWalk(startRoot, value, <<>>, startRoot)
        inserted == [kind |-> "inserted", value |-> value, node |-> value,
                     highlightIds |-> <<value>>, appended |-> <<value>>,
                     at |-> insertSingleValue(startRoot, value)]
    IN  IF walk # <<>> /\ walk[Len(walk)].kind = "exists" THEN walk
        ELSE Append(walk, inserted)

\* bstOperations.ts insertWithSteps, the steps it returns: after each value
\* every step of that value is copied with tree: cloneTree(root), root
\* being the tree insertSingleValue returned
RECURSIVE insertWithStepsTrace(_, _)
insertWithStepsTrace(startRoot, values) ==
    IF values = <<>> THEN <<>>
    ELSE LET newRoot == insertSingleValue(startRoot, Head(values))
             steps == insertSingleValueSteps(startRoot, Head(values))
         IN  [k \in DOMAIN steps |->
                [kind |-> steps[k].kind, value |-> steps[k].value,
                 node |-> steps[k].node,
                 highlightIds |-> steps[k].highlightIds,
                 appended |-> steps[k].appended,
                 tree |-> newRoot, at |-> steps[k].at]]
             \o insertWithStepsTrace(newRoot, Tail(values))

\* the values of the nodes the loop of insertRBWithSteps visits
RECURSIVE rbPath(_, _, _)
rbPath(h, current, value) ==
    IF current = 0 THEN <<>>
    ELSE <<h[current].value>>
         \o IF value = h[current].value THEN <<>>
            ELSE rbPath(h, IF value < h[current].value THEN h[current].left
                           ELSE h[current].right, value)

\* redBlackOperations.ts insertRBWithSteps, the steps of the loop: each is
\* pushed with highlightIds: path, the array the loop goes on pushing to,
\* so when the call returns every one of them holds the whole path
rbWalkSteps(h, start, value) ==
    LET path == rbPath(h, start, value)
    IN  [k \in DOMAIN path |->
            [kind |-> IF path[k] = value THEN "exists" ELSE "comparing",
             value |-> value,
             highlightIds |-> path, appended |-> SubSeq(path, 1, k)]]

FreshStep(kind, value, highlighted) ==
    [kind |-> kind, value |-> value, highlightIds |-> highlighted,
     appended |-> highlighted]

\* redBlackOperations.ts fixViolationsWithSteps, the steps of the while loop
RECURSIVE fixViolationsLoopSteps(_, _, _)
fixViolationsLoopSteps(st, current, value) ==
    LET h == st.h
        parent == h[current].parent
    IN  IF parent = 0 \/ h[parent].color # "red" THEN <<>>
        ELSE LET grandParent == h[parent].parent
             IN  IF grandParent = 0 THEN <<>>
                 ELSE LET onLeft == parent = h[grandParent].left
                          uncle == IF onLeft THEN h[grandParent].right
                                   ELSE h[grandParent].left
                          violation ==
                              FreshStep("violation", value,
                                        <<h[current].value, h[parent].value,
                                          h[grandParent].value>>)
                      IN  IF uncle # 0 /\ h[uncle].color = "red"
                          THEN <<violation,
                                 FreshStep("recolor", value,
                                           <<h[parent].value, h[uncle].value,
                                             h[grandParent].value>>)>>
                               \o fixViolationsLoopSteps(
                                     [st EXCEPT !.h[parent].color = "black",
                                                !.h[uncle].color = "black",
                                                !.h[grandParent].color = "red"],
                                     grandParent, value)
                          ELSE LET inner == IF onLeft THEN current = h[parent].right
                                            ELSE current = h[parent].left
                                   cur == IF inner THEN parent ELSE current
                                   st1 == IF ~inner THEN st
                                          ELSE IF onLeft THEN rbRotateLeft(st, parent)
                                          ELSE rbRotateRight(st, parent)
                                   st2 == [st1 EXCEPT
                                             !.h[st1.h[cur].parent].color = "black",
                                             !.h[grandParent].color = "red"]
                                   st3 == IF onLeft THEN rbRotateRight(st2, grandParent)
                                          ELSE rbRotateLeft(st2, grandParent)
                               IN  <<violation>>
                                   \o (IF inner
                                       THEN <<FreshStep("triangle", value,
                                                  <<h[current].value,
                                                    h[parent].value>>)>>
                                       ELSE <<>>)
                                   \o <<FreshStep("line", value,
                                                  <<h[grandParent].value>>)>>
                                   \o fixViolationsLoopSteps(st3, cur, value)

\* redBlackOperations.ts insertRBWithSteps, the steps of one value
insertRBValueSteps(st, value) ==
    IF st.root = 0 THEN <<FreshStep("inserted", value, <<value>>)>>
    ELSE LET path == rbPath(st.h, st.root, value)
             parent == rbDescend(st.h, st.root, value)
             newNode == Len(st.h) + 1
             h1 == Append(st.h, [value |-> value, color |-> "red",
                                 left |-> 0, right |-> 0, parent |-> parent])
             h2 == IF value < h1[parent].value
                   THEN [h1 EXCEPT ![parent].left = newNode]
                   ELSE [h1 EXCEPT ![parent].right = newNode]
             fixed == fixViolations([h |-> h2, root |-> st.root], newNode)
         IN  IF value = st.h[parent].value
             THEN rbWalkSteps(st.h, st.root, value)
             ELSE rbWalkSteps(st.h, st.root, value)
                  \o <<FreshStep("inserted", value, Append(path, value))>>
                  \o fixViolationsLoopSteps([h |-> h2, root |-> st.root],
                                            newNode, value)
                  \o <<FreshStep("rootBlack", value,
                                 <<fixed.h[fixed.root].value>>)>>

RECURSIVE insertRBStepsFrom(_, _)
insertRBStepsFrom(st, values) ==
    IF values = <<>> THEN <<FreshStep("complete", 0, <<>>)>>
    ELSE insertRBValueSteps(st, Head(values))
         \o insertRBStepsFrom(rbInsertNode(st, Head(values)), Tail(values))

\* redBlackOperations.ts insertRBWithSteps, the steps it returns
insertRBWithStepsTrace(startRoot, values) ==
    IF values = <<>> THEN <<>>
    ELSE LET c == convertToRBTree(startRoot, 0, <<>>)
         IN  insertRBStepsFrom([h |-> c.h, root |-> c.ref], values)

\* Sidebar.tsx handleInsert, the steps kept for the player
BSTInsertNarrated ==
    /\ family = "bst" /\ root # Nil
    /\ \E values \in OpInputs :
          /\ op' = "insert"
          /\ root' = insertWithSteps(root, values)
          /\ trace' = insertWithStepsTrace(root, values)
          /\ stored' = stored \cup Range(values)
          /\ hit' = (TreeValues(root') # TreeValues(root))
          /\ threw' = FALSE
          /\ query' = NoQuery
          /\ intact' = TRUE
          /\ UNCHANGED <<family, degree>>
          /\ UNCHANGED <<idvars, playvars>>

RBInsertNarrated ==
    /\ family = "rb" /\ root # Nil
    /\ \E values \in RBLists(MaxRBInput) :
          /\ op' = "insert"
          /\ root' = insertRBWithSteps(root, values)
          /\ trace' = insertRBWithStepsTrace(root, values)
          /\ stored' = stored \cup Range(values)
          /\ hit' = (RBTreeValues(root') # RBTreeValues(root))
          /\ threw' = FALSE
          /\ query' = NoQuery
          /\ intact' = TRUE
          /\ UNCHANGED <<family, degree>>
          /\ UNCHANGED <<idvars, playvars>>

InitNarrated ==
    /\ family \in {"bst", "rb"}
    /\ root = Nil
    /\ op = "init"
    /\ hit = FALSE
    /\ threw = FALSE
    /\ trace = <<>>
    /\ query = NoQuery
    /\ degree = 3
    /\ stored = {}
    /\ intact = TRUE
    /\ InitIds
    /\ InitStore

NextNarrated == BSTBuild \/ BSTInsertNarrated \/ RBBuild \/ RBInsertNarrated

SpecNarrated == InitNarrated /\ [][NextNarrated]_vars

(***************************************************************************)
(* Narrated AVL delete after a build run: the call of avlOperations.ts     *)
(* deleteAVLWithSteps with one value typed, and the kinds of the steps it  *)
(* returns, in order.                                                      *)
(***************************************************************************)
\* avlOperations.ts deleteAVLRecursive, the steps pushed after the subtree
\* call returned: the balance report and the steps of the rotation case
deleteRebalanceSteps(node) ==
    LET balance == getBalance(node)
        report == IF Abs(balance) > 1 THEN <<"unbalanced">> ELSE <<>>
    IN  IF balance > 1 /\ getBalance(node.left) >= 0
            THEN report \o <<"rotate", "rotated">>
        ELSE IF balance > 1 /\ getBalance(node.left) < 0
            THEN report \o <<"rotate", "rotate", "rotated">>
        ELSE IF balance < -1 /\ getBalance(node.right) <= 0
            THEN report \o <<"rotate", "rotated">>
        ELSE IF balance < -1 /\ getBalance(node.right) > 0
            THEN report \o <<"rotate", "rotate", "rotated">>
        ELSE report

\* avlOperations.ts deleteAVLRecursive, the steps it pushes
RECURSIVE deleteAVLRecursiveSteps(_, _)
deleteAVLRecursiveSteps(node, value) ==
    IF node = Nil THEN <<"notFound">>
    ELSE IF value < node.value
         THEN <<"searching">>
              \o deleteAVLRecursiveSteps(node.left, value)
              \o deleteRebalanceSteps(
                    [node EXCEPT !.left = deleteAVLRecursive(node.left, value)])
    ELSE IF value > node.value
         THEN <<"searching">>
              \o deleteAVLRecursiveSteps(node.right, value)
              \o deleteRebalanceSteps(
                    [node EXCEPT !.right = deleteAVLRecursive(node.right, value)])
    ELSE IF node.left = Nil /\ node.right = Nil THEN <<"found", "leaf">>
    ELSE IF node.left = Nil \/ node.right = Nil THEN <<"found", "oneChild">>
    ELSE LET successor == findMin(node.right)
         IN  <<"found", "twoChildren">>
             \o deleteAVLRecursiveSteps(node.right, successor.value)
             \o deleteRebalanceSteps(
                   [node EXCEPT !.value = successor.value,
                                !.right = deleteAVLRecursive(node.right,
                                                             successor.value)])

\* avlOperations.ts deleteAVLWithSteps, the steps it returns for one value
deleteAVLWithStepsTrace(startRoot, value) ==
    IF startRoot = Nil THEN <<>>
    ELSE deleteAVLRecursiveSteps(startRoot, value)

\* a value typed for the delete: one of the values of the build run or one
\* above them all
DeleteRunValues == 1..(MaxBuildVal + 1)

\* Sidebar.tsx handleDelete
AVLDeleteRun ==
    /\ family = "avl" /\ root # Nil
    /\ \E value \in DeleteRunValues :
          LET result == deleteAVLWithSteps(root, <<value>>)
          IN  /\ op' = "delete"
              /\ query' = value
              /\ threw' = (result = THROWN)
              /\ root' = IF result = THROWN THEN root ELSE result
              /\ trace' = IF result = THROWN THEN <<>>
                          ELSE deleteAVLWithStepsTrace(root, value)
              /\ stored' = IF result = THROWN THEN stored ELSE stored \ {value}
              /\ hit' = (TreeValues(root') # TreeValues(root))
              /\ intact' = TRUE
              /\ UNCHANGED <<family, degree>>
              /\ UNCHANGED <<idvars, playvars>>

NextAVLBuildDelete == NextAVLBuild \/ AVLDeleteRun

SpecAVLBuildDelete == InitAVLBuild /\ [][NextAVLBuildDelete]_vars

(***************************************************************************)
(* The minimum degree field of the Sidebar.  The user may retype the field *)
(* before every click, so each handler takes its text as an input.  A      *)
(* handler is two steps here: it reads the field and calls the engine      *)
(* function, whose first statement assigns MIN_DEGREE (`degree`); then the *)
(* function runs with that MIN_DEGREE and the handler stores its result.   *)
(* No other step is taken between the two.                                 *)
(* Sidebar declares const [minDegree, setMinDegree] = useState('3'), which *)
(* hides the setMinDegree imported from bTree.ts: a B-Tree build stores    *)
(* the checked degree in the field only, and buildBTree runs with the      *)
(* MIN_DEGREE bTree.ts starts with.  A B+ Tree build passes the degree on  *)
(* with setBPlusMinDegree.  Insert and delete pass parseInt(minDegree)||3. *)
(***************************************************************************)
\* a JavaScript number: NaN, or the integer n
NaN == [isNaN |-> TRUE, n |-> 0]
Number(n) == [isNaN |-> FALSE, n |-> n]

DigitValue(c) ==
    CASE c = "0" -> 0 [] c = "1" -> 1 [] c = "2" -> 2 [] c = "3" -> 3
      [] c = "4" -> 4 [] c = "5" -> 5 [] c = "6" -> 6 [] c = "7" -> 7
      [] c = "8" -> 8 [] c = "9" -> 9 [] OTHER -> -1

\* the number read from the leading digits of text, from position i on;
\* seen says that a digit has been read
RECURSIVE parseDigits(_, _, _, _)
parseDigits(text, i, acc, seen) ==
    IF i > Len(text) \/ DigitValue(text[i]) < 0
    THEN IF seen THEN Number(acc) ELSE NaN
    ELSE parseDigits(text, i + 1, 10 * acc + DigitValue(text[i]), TRUE)

\* JavaScript parseInt: an optional sign, then the leading digits; what
\* follows them is ignored; no digit gives NaN
parseInt(text) ==
    IF text # <<>> /\ text[1] = "-"
    THEN LET n == parseDigits(text, 2, 0, FALSE)
         IN  IF n.isNaN THEN NaN ELSE Number(0 - n.n)
    ELSE parseDigits(text, 1, 0, FALSE)

\* texts typed into the field.  A text that gives a degree below 2 ("1",
\* "-1") passes handleInsert and handleDelete as "101" does; none is typed
\* here, because with such a degree the engines read array positions that do
\* not exist, which the arrays of this model do not represent.
DegreeTexts ==
    {<<>>, <<"a">>, <<"0">>, <<"2">>, <<"3">>, <<"2", ".", "5">>,
     <<"1", "0", "1">>}

DegreeKeyLists(n) ==
    {s \in UNION {[1..k -> 1..MaxDegreeKey] : k \in 0..n} :
        \A i, j \in DOMAIN s : i # j => s[i] # s[j]}

\* Sidebar.tsx handleBuildTree, the checks of the degree
DegreeAccepted(t) == ~t.isNaN /\ ~(t.n < 2) /\ ~(t.n > 100)

\* parseInt(minDegree) || 3
DegreeOrDefault(text) ==
    LET t == parseInt(text)
    IN  IF t.isNaN \/ t.n = 0 THEN 3 ELSE t.n

\* bTree.ts: let MIN_DEGREE = 3
BTREE_DEFAULT_DEGREE == 3

\* a handler that returns after showing an error
Rejected ==
    /\ op' = "rejected"
    /\ UNCHANGED <<family, root, hit, threw, trace, query, degree, stored, intact>>
    /\ UNCHANGED <<idvars, playvars>>

\* the handler has read the field and calls the engine function `name`,
\* which runs with MIN_DEGREE = t
EngineCalled(name, t, values) ==
    /\ op' = "called"
    /\ degree' = t
    /\ query' = [call |-> name, values |-> values]
    /\ UNCHANGED <<family, root, hit, threw, trace, stored, intact>>
    /\ UNCHANGED <<idvars, playvars>>

\* Sidebar.tsx handleBuildTree up to the engine call
DegreeBuild ==
    /\ family \in {"btree", "bplus"} /\ root = Nil /\ op # "called"
    /\ \E text \in DegreeTexts, values \in DegreeKeyLists(MaxKeyBuild) \ {<<>>} :
          LET t == parseInt(text)
          IN  IF ~DegreeAccepted(t) THEN Rejected
              ELSE IF family = "btree"
                   THEN EngineCalled("build", BTREE_DEFAULT_DEGREE, values)
                   ELSE EngineCalled("build", Max(2, t.n), values)

\* Sidebar.tsx handleInsert up to the engine call, whose first statement is
\* MIN_DEGREE = minDegree
DegreeInsert ==
    /\ family \in {"btree", "bplus"} /\ root # Nil /\ op # "called"
    /\ \E text \in DegreeTexts, values \in DegreeKeyLists(MaxKeyInput) \ {<<>>} :
          EngineCalled("insert", DegreeOrDefault(text), values)

\* Sidebar.tsx handleDelete up to the engine call
DegreeDelete ==
    /\ family \in {"btree", "bplus"} /\ root # Nil /\ op # "called"
    /\ \E text \in DegreeTexts, values \in DegreeKeyLists(MaxKeyInput) \ {<<>>} :
          EngineCalled("delete", DegreeOrDefault(text), values)

\* the rest of the handler: the engine function runs with the MIN_DEGREE it
\* was given and the handler stores the root it returns
DegreeRun ==
    /\ op = "called"
    /\ LET values == query.values
           result ==
               CASE family = "btree" /\ query.call = "build" -> buildBTree(values)
                 [] family = "btree" /\ query.call = "insert" ->
                        insertBTreeWithSteps(root, values)
                 [] family = "btree" /\ query.call = "delete" ->
                        deleteBTreeWithSteps(root, values)
                 [] family = "bplus" /\ query.call = "build" ->
                        buildBPlusTree(values)
                 [] family = "bplus" /\ query.call = "insert" ->
                        insertBPlusTreeWithSteps(root, values)
                 [] family = "bplus" /\ query.call = "delete" ->
                        deleteBPlusTreeWithSteps(root, values)
       IN  /\ CallStoring(query.call, root, result,
                          CASE query.call = "build" -> Range(values)
                            [] query.call = "insert" -> stored \cup Range(values)
                            [] query.call = "delete" -> stored \ Range(values))
           /\ hit' = IF family = "btree"
                     THEN BTreeKeys(root') # BTreeKeys(root)
                     ELSE BPlusLeafKeys(root') # BPlusLeafKeys(root)

InitDegree ==
    /\ family \in {"btree", "bplus"}
    /\ root = Nil
    /\ op = "init"
    /\ hit = FALSE
    /\ threw = FALSE
    /\ trace = <<>>
    /\ query = NoQuery
    /\ degree = 3
    /\ stored = {}
    /\ intact = TRUE
    /\ InitIds
    /\ InitStore

NextDegree == DegreeBuild \/ DegreeInsert \/ DegreeDelete \/ DegreeRun

SpecDegree == InitDegree /\ [][NextDegree]_vars

(***************************************************************************)
(* B-Tree build runs: one instant or animated build of a longer list; the  *)
(* list typed is kept in `query`.                                          *)
(***************************************************************************)
RECURSIVE SortedList(_)
SortedList(S) ==
    IF S = {} THEN <<>>
    ELSE LET least == CHOOSE x \in S : \A y \in S : x <= y
         IN  <<least>> \o SortedList(S \ {least})

Reverse(s) == [k \in DOMAIN s |-> s[Len(s) + 1 - k]]

\* the lists typed for a run: some of the keys 1..MaxRunKey, in ascending
\* or in descending order
BTreeRunInputs ==
    {SortedList(S) : S \in SUBSET (1..MaxRunKey)}
        \cup {Reverse(SortedList(S)) : S \in SUBSET (1..MaxRunKey)}

BTreeBuildRun ==
    /\ family = "btree" /\ root = Nil
    /\ \E values \in BTreeRunInputs :
          /\ op' = "build"
          /\ root' = buildBTree(values)
          /\ query' = values
          /\ stored' = Range(values)
          /\ hit' = (values # <<>>)
          /\ trace' = <<>>
          /\ UNCHANGED <<family, threw, degree, intact>>
          /\ UNCHANGED <<idvars, playvars>>

BTreeBuildWithStepsRun ==
    /\ family = "btree" /\ root = Nil
    /\ \E values \in BTreeRunInputs :
          /\ op' = "buildWithSteps"
          /\ root' = buildBTreeWithSteps(values)
          /\ query' = values
          /\ stored' = Range(values)
          /\ hit' = (values # <<>>)
          /\ trace' = <<>>
          /\ UNCHANGED <<family, threw, degree, intact>>
          /\ UNCHANGED <<idvars, playvars>>

NextBTreeBuild == BTreeBuildRun \/ BTreeBuildWithStepsRun

SpecBTreeBuild == InitBTree /\ [][NextBTreeBuild]_vars

(***************************************************************************)
(* Node ids.  Every id has the form `node-${n}`; the model keeps n.  The   *)
(* instant BST build numbers its nodes from a counter local to the call    *)
(* (buildTree.ts: let nodeCounter = 0), BST inserts from the module        *)
(* counter of bstOperations.ts, AVL builds from the module counter of      *)
(* avlTree.ts.  Values of one input are distinct (parseValues), so the     *)
(* values that create a node are those the tree does not hold yet.         *)
(***************************************************************************)
IdInputs ==
    {s \in UNION {[1..k -> 1..MaxIdVal] : k \in 1..MaxIdVal} :
        \A i, j \in DOMAIN s : i # j => s[i] # s[j]}

CreatedValues(present, values) ==
    SelectSeq(values, LAMBDA v : v \notin present)

\* id: `node-${counter++}` for each created node, in the order of the loop
IdsFrom(counter, created) ==
    [k \in 1..Len(created) |-> counter + k - 1]

RECURSIVE Assign(_, _, _)
Assign(table, created, counter) ==
    IF created = <<>> THEN table
    ELSE Assign((Head(created) :> counter) @@ table, Tail(created),
                counter + 1)

\* one engine call of the Sidebar whose result is stored: setRoot(newRoot)
IdCall(name, result, values, created, counter, counters) ==
    /\ Len(issued) + Len(created) <= MaxIssued
    /\ op' = name
    /\ root' = result
    /\ query' = values
    /\ ids' = Assign(IF name = "build" THEN <<>> ELSE ids, created, counter)
    /\ issued' = issued \o IdsFrom(counter, created)
    /\ nodeIdCounter' = counters
    /\ stored' = TreeValues(result)
    /\ hit' = (created # <<>>)
    /\ threw' = FALSE
    /\ trace' = <<>>
    /\ intact' = TRUE
    /\ UNCHANGED <<family, degree>>
    /\ UNCHANGED playvars

\* buildTree.ts buildTree: nodeCounter starts at 0 in every call
IdBSTBuild ==
    /\ family = "bst"
    /\ \E values \in IdInputs :
          IdCall("build", buildTree(values), values, values, 0,
                 nodeIdCounter)

\* bstOperations.ts insertWithSteps, insertSingleValue (handleInsert returns
\* early when there is no tree)
IdBSTInsert ==
    /\ family = "bst" /\ root # Nil
    /\ \E values \in IdInputs :
          LET created == CreatedValues(TreeValues(root), values)
              counter == nodeIdCounter.bstOperations
          IN  IdCall("insert", insertWithSteps(root, values), values,
                     created, counter,
                     [nodeIdCounter EXCEPT
                        !.bstOperations = counter + Len(created)])

\* avlTree.ts buildAVLTree, insertAVLNode
IdAVLBuild ==
    /\ family = "avl"
    /\ \E values \in IdInputs :
          LET counter == nodeIdCounter.avlTree
          IN  IdCall("build", buildAVLTree(values), values, values, counter,
                     [nodeIdCounter EXCEPT
                        !.avlTree = counter + Len(values)])

InitIdCalls ==
    /\ family \in {"bst", "avl"}
    /\ root = Nil
    /\ op = "init"
    /\ hit = FALSE
    /\ threw = FALSE
    /\ trace = <<>>
    /\ query = NoQuery
    /\ degree = 3
    /\ stored = {}
    /\ intact = TRUE
    /\ InitIds
    /\ InitStore

NextIds == IdBSTBuild \/ IdBSTInsert \/ IdAVLBuild

SpecIds == InitIdCalls /\ [][NextIds]_vars

(***************************************************************************)
(* Narrated BST delete: bstOperations.ts deleteWithSteps with the snapshot *)
(* each step carries (tree: cloneTree(rootRef)).  rootRef and node are     *)
(* references into one tree the recursion works on: `live` is that tree    *)
(* when a step is pushed and `path` the way from its root to node.  The    *)
(* only write before the last push of a value is node.value =              *)
(* successor.value; the links are rewritten while the recursion returns.   *)
(***************************************************************************)
RECURSIVE NodeAt(_, _)
NodeAt(live, path) ==
    IF path = <<>> \/ live = Nil THEN live
    ELSE NodeAt(IF Head(path) = "left" THEN live.left ELSE live.right,
                Tail(path))

RECURSIVE SetValueAt(_, _, _)
SetValueAt(live, path, value) ==
    IF path = <<>> THEN [live EXCEPT !.value = value]
    ELSE IF Head(path) = "left"
         THEN [live EXCEPT !.left = SetValueAt(live.left, Tail(path), value)]
         ELSE [live EXCEPT !.right = SetValueAt(live.right, Tail(path), value)]

SnapshotStep(kind, value, live) == [kind |-> kind, value |-> value, tree |-> live]

RECURSIVE deleteNodeRecursiveSteps(_, _, _)
deleteNodeRecursiveSteps(live, path, value) ==
    LET node == NodeAt(live, path)
    IN  IF node = Nil THEN <<SnapshotStep("notFound", value, live)>>
        ELSE IF value < node.value
             THEN <<SnapshotStep("goLeft", value, live)>>
                  \o deleteNodeRecursiveSteps(live, Append(path, "left"), value)
        ELSE IF value > node.value
             THEN <<SnapshotStep("goRight", value, live)>>
                  \o deleteNodeRecursiveSteps(live, Append(path, "right"), value)
        ELSE <<SnapshotStep("found", value, live)>> \o
             (IF node.left = Nil /\ node.right = Nil
                  THEN <<SnapshotStep("leaf", value, live)>>
              ELSE IF node.left = Nil
                  THEN <<SnapshotStep("onlyRight", value, live)>>
              ELSE IF node.right = Nil
                  THEN <<SnapshotStep("onlyLeft", value, live)>>
              ELSE LET successor == findMin(node.right)
                   IN  <<SnapshotStep("twoChildren", value, live)>>
                       \o deleteNodeRecursiveSteps(
                              SetValueAt(live, path, successor.value),
                              Append(path, "right"), successor.value))

\* deleteSingleValue
deleteSingleValueSteps(startRoot, value) ==
    IF startRoot = Nil THEN <<SnapshotStep("empty", value, Nil)>>
    ELSE deleteNodeRecursiveSteps(startRoot, <<>>, value)

\* deleteWithSteps: allSteps.push(...steps) for each value in turn
RECURSIVE deleteStepsFrom(_, _)
deleteStepsFrom(current, values) ==
    IF values = <<>> THEN <<>>
    ELSE deleteSingleValueSteps(current, Head(values))
         \o deleteStepsFrom(deleteNodeRecursive(current, Head(values)),
                            Tail(values))

deleteWithStepsTrace(startRoot, values) ==
    IF values = <<>> \/ startRoot = Nil THEN <<>>
    ELSE deleteStepsFrom(startRoot, values)

\* Sidebar.tsx handleDelete for the BST (it returns early without a tree)
BSTDeleteNarrated ==
    /\ family = "bst" /\ root # Nil
    /\ \E values \in OpInputs :
          /\ op' = "delete"
          /\ root' = deleteWithSteps(root, values)
          /\ trace' = deleteWithStepsTrace(root, values)
          /\ stored' = stored \ Range(values)
          /\ hit' = (TreeValues(root') # TreeValues(root))
          /\ threw' = FALSE
          /\ query' = NoQuery
          /\ intact' = TRUE
          /\ UNCHANGED <<family, degree>>
          /\ UNCHANGED <<idvars, playvars>>

InitSnapshots == InitBinary /\ family = "bst"

NextSnapshots == BSTBuild \/ BSTInsertNarrated \/ BSTDeleteNarrated

SpecSnapshots == InitSnapshots /\ [][NextSnapshots]_vars

(***************************************************************************)
(* Descents of a B-Tree delete: bTreeOperations.ts deleteFromNode.  For    *)
(* each call of deleteFromNode(node.children[i], key) made because the key *)
(* is not in node, the number of keys children[i] holds when the call is   *)
(* made, in the order of the calls.                                        *)
(***************************************************************************)
RECURSIVE deleteFromNodeDescents(_, _)
RECURSIVE deleteFromInternalNodeDescents(_, _, _)

\* if (i < node.children.length) deleteFromNode(node.children[i], key, steps)
descendDescents(node, key, i) ==
    IF i < Len(node.children)
    THEN <<Len(At(node.children, i).keys)>>
         \o deleteFromNodeDescents(At(node.children, i), key)
    ELSE <<>>

deleteFromNodeDescents(node, key) ==
    LET i == ScanUp(node.keys, key, 0)
    IN  IF i < Len(node.keys) /\ key = At(node.keys, i)
        THEN IF node.isLeaf THEN <<>>
             ELSE deleteFromInternalNodeDescents(node, key, i)
        ELSE IF node.isLeaf THEN <<>>
        ELSE IF Len(At(node.children, i).keys) < MIN_DEGREE - 1
             THEN LET filled == fill(node, i)
                      newI == ScanUp(filled.keys, key, 0)
                  IN  IF newI < Len(filled.keys) /\ key = At(filled.keys, newI)
                      THEN deleteFromInternalNodeDescents(filled, key, newI)
                      ELSE descendDescents(filled, key, newI)
             ELSE descendDescents(node, key, i)

\* the key is in node: the calls made below the child the predecessor, the
\* successor or the merged key is deleted from
deleteFromInternalNodeDescents(node, key, i) ==
    LET t == MIN_DEGREE
    IN  IF Len(At(node.children, i).keys) >= t
        THEN deleteFromNodeDescents(At(node.children, i),
                                    getPredecessor(node, i))
        ELSE IF Len(At(node.children, i + 1).keys) >= t
        THEN deleteFromNodeDescents(At(node.children, i + 1),
                                    getSuccessor(node, i))
        ELSE deleteFromNodeDescents(At(merge(node, i).children, i), key)

\* Sidebar.tsx handleDelete for the B-Tree with one key typed
BTreeDeleteDescending ==
    /\ family = "btree" /\ root # Nil
    /\ \E key \in Keys :
          /\ op' = "delete"
          /\ root' = deleteBTreeWithSteps(root, <<key>>)
          /\ trace' = deleteFromNodeDescents(root, key)
          /\ query' = key
          /\ stored' = stored \ {key}
          /\ hit' = (BTreeKeys(root') # BTreeKeys(root))
          /\ threw' = FALSE
          /\ intact' = TRUE
          /\ UNCHANGED <<family, degree>>
          /\ UNCHANGED <<idvars, playvars>>

NextBTreeDescents == BTreeBuild \/ BTreeInsert \/ BTreeDeleteDescending

SpecBTreeDescents == InitBTree /\ [][NextBTreeDescents]_vars

(***************************************************************************)
(* Playback: useTreeStore.ts.  The store actions are functions of the      *)
(* store and of the timers of the page; each returns both as they are when *)
(* the action returns.  A step of the trace is stood for by its position.  *)
(* The interval callback (() => get().next()) runs while its timer is      *)
(* live; a setTimeout callback (() => play()) runs once.  The user acts    *)
(* through the buttons until handsOff.                                     *)
(***************************************************************************)
Steps(n) == [k \in 1..n |-> k]

Outcome(st, w) == [store |-> st, window |-> w]

\* pause: clearInterval(playIntervalId); set({playing: false,
\* playIntervalId: null})
StorePause(st, w) ==
    Outcome([st EXCEPT !.playing = FALSE, !.playIntervalId = 0],
            [w EXCEPT !.intervals = @ \ {st.playIntervalId}])

\* Variant of next that leaves the playback running on the last step.
StoreNextNoPause(st, w) ==
    IF st.index < Len(st.steps) - 1
    THEN Outcome([st EXCEPT !.index = @ + 1], w)
    ELSE Outcome(st, w)

\* next
StoreNext(st, w) ==
    IF st.index < Len(st.steps) - 1
    THEN Outcome([st EXCEPT !.index = @ + 1], w)
    ELSE IF st.playing
         THEN LET paused == StorePause(st, w)
              IN  Outcome([paused.store EXCEPT !.activeAction = "none"],
                          paused.window)
         ELSE Outcome(st, w)

\* prev
StorePrev(st, w) ==
    IF st.index > -1 THEN Outcome([st EXCEPT !.index = @ - 1], w)
    ELSE Outcome(st, w)

\* goto
StoreGoto(st, w, i) ==
    IF i >= -1 /\ i < Len(st.steps) THEN Outcome([st EXCEPT !.index = i], w)
    ELSE Outcome(st, w)

\* play: window.setInterval returns the id of the new timer
StorePlay(st, w) ==
    IF st.playing THEN Outcome(st, w)
    ELSE Outcome([st EXCEPT !.playing = TRUE,
                            !.playIntervalId = w.created + 1],
                 [w EXCEPT !.intervals = @ \cup {w.created + 1},
                           !.created = @ + 1])

\* reset
StoreReset(st, w) ==
    LET paused == StorePause(st, w)
    IN  Outcome([paused.store EXCEPT !.index = -1], paused.window)

\* clear (the root it empties is set in the action)
StoreClear(st, w) ==
    LET paused == StorePause(st, w)
    IN  Outcome([paused.store EXCEPT !.steps = <<>>, !.index = -1,
                                     !.activeAction = "none"],
                paused.window)

\* setPlaybackSpeed: if (playing) { pause(); setTimeout(() => play(), 0) }
StoreSetPlaybackSpeed(st, w) ==
    IF st.playing
    THEN LET paused == StorePause(st, w)
         IN  Outcome(paused.store,
                     [paused.window EXCEPT !.timeouts = @ + 1])
    ELSE Outcome(st, w)

enginevars ==
    <<family, root, op, hit, threw, trace, query, degree, stored, intact>>

\* what an action of the user leaves the page in; timers and waiting
\* callbacks are capped
UserDoes(outcome) ==
    /\ ~handsOff
    /\ outcome.window.created <= MaxTimers
    /\ outcome.window.timeouts <= MaxTimeouts
    /\ store' = outcome.store
    /\ window' = outcome.window
    /\ UNCHANGED <<handsOff, idvars>>

\* Sidebar.tsx handlers: setSteps(steps, action) and setTimeout(() =>
\* play(), 100) when animated, setSteps([]) otherwise
SetSteps ==
    \/ /\ \E n \in 0..MaxSteps :
             UserDoes(Outcome([store EXCEPT !.steps = Steps(n), !.index = -1,
                                            !.activeAction = "build"],
                              [window EXCEPT !.timeouts = @ + 1]))
       /\ UNCHANGED enginevars
    \/ /\ UserDoes(Outcome([store EXCEPT !.steps = <<>>, !.index = -1,
                                         !.activeAction = "none"],
                           window))
       /\ UNCHANGED enginevars

\* StepLog.tsx handleStepClick: if (playing) pause(); goto(stepIndex)
StepClick ==
    /\ \E i \in 0..(Len(store.steps) - 1) :
          LET paused == IF store.playing THEN StorePause(store, window)
                        ELSE Outcome(store, window)
          IN  UserDoes(StoreGoto(paused.store, paused.window, i))
    /\ UNCHANGED enginevars

\* TreeCanvasFrame.tsx buttons
PrevClick ==
    UserDoes(StorePrev(store, window)) /\ UNCHANGED enginevars

NextClick ==
    UserDoes(StoreNext(store, window)) /\ UNCHANGED enginevars

PlayPauseClick ==
    /\ UserDoes(IF store.playing THEN StorePause(store, window)
                ELSE StorePlay(store, window))
    /\ UNCHANGED enginevars

ResetClick ==
    UserDoes(StoreReset(store, window)) /\ UNCHANGED enginevars

SpeedChange ==
    UserDoes(StoreSetPlaybackSpeed(store, window)) /\ UNCHANGED enginevars

\* Sidebar.tsx handleClear
ClearClick ==
    /\ UserDoes(StoreClear(store, window))
    /\ root' = Nil
    /\ UNCHANGED <<family, op, hit, threw, trace, query, degree, stored,
                   intact>>

\* the callback of a live interval timer
Tick ==
    /\ window.intervals # {}
    /\ LET outcome == StoreNext(store, window)
       IN  store' = outcome.store /\ window' = outcome.window
    /\ UNCHANGED <<handsOff, idvars, enginevars>>

\* a setTimeout callback runs
Timeout ==
    /\ window.timeouts > 0
    /\ LET outcome == StorePlay(store,
                                [window EXCEPT !.timeouts = @ - 1])
       IN  /\ outcome.window.created <= MaxTimers
           /\ store' = outcome.store /\ window' = outcome.window
    /\ UNCHANGED <<handsOff, idvars, enginevars>>

\* from here on the user leaves the page alone
UserLeaves ==
    /\ ~handsOff
    /\ handsOff' = TRUE
    /\ UNCHANGED <<store, window, idvars, enginevars>>

InitPlayback == InitBinary /\ family = "bst"

NextPlayback ==
    \/ SetSteps \/ StepClick \/ PrevClick \/ NextClick \/ PlayPauseClick
    \/ ResetClick \/ SpeedChange \/ ClearClick
    \/ Tick \/ Timeout \/ UserLeaves

SpecPlayback == InitPlayback /\ [][NextPlayback]_vars

\* a live interval timer keeps firing
SpecPlaybackFair == SpecPlayback /\ WF_vars(Tick)

(***************************************************************************)
(* Properties of binary trees.                                             *)
(***************************************************************************)
RECURSIVE IsSearchTree(_)
IsSearchTree(node) ==
    \/ node = Nil
    \/ /\ \A v \in TreeValues(node.left) : v < node.value
       /\ \A v \in TreeValues(node.right) : v > node.value
       /\ IsSearchTree(node.left)
       /\ IsSearchTree(node.right)

RECURSIVE IsBalanced(_)
IsBalanced(node) ==
    \/ node = Nil
    \/ /\ Abs(getHeight(node.left) - getHeight(node.right)) <= 1
       /\ IsBalanced(node.left)
       /\ IsBalanced(node.right)

\* C1: after any sequence of BST or AVL inserts and deletes, every node of
\* the returned tree has only smaller values in its left subtree and only
\* greater values in its right subtree.
C1_SearchOrder == IsSearchTree(root)

C1_Witness ==
    /\ family = "avl" /\ op = "delete" /\ hit
    /\ TreeSize(root) >= 4

\* C2: an AVL insert or delete applied to a tree that is height-balanced at
\* every node returns a tree that is height-balanced at every node.
C2_BalancePreserved ==
    [][(family = "avl" /\ op' \in {"insert", "delete"} /\ IsBalanced(root))
          => IsBalanced(root')]_vars

C2_Witness ==
    /\ family = "avl" /\ op = "delete" /\ hit
    /\ getHeight(root) = 3 /\ TreeSize(root) = 4
    /\ IsBalanced(root)

\* C3: in an animated AVL build, the snapshot taken after each inserted
\* value and the returned root are height-balanced at every node.
C3_AnimatedBuildBalanced ==
    (family = "avl" /\ op = "buildWithSteps")
        => /\ IsBalanced(root)
           /\ \A k \in DOMAIN trace : IsBalanced(trace[k])

(***************************************************************************)
(* Properties of B-Trees.                                                  *)
(***************************************************************************)
StrictlyIncreasing(keys) ==
    \A k \in 1..(Len(keys) - 1) : keys[k] < keys[k + 1]

RECURSIVE LeafDepths(_)
LeafDepths(node) ==
    IF node.isLeaf THEN {0}
    ELSE UNION {{d + 1 : d \in LeafDepths(node.children[c])} :
                    c \in DOMAIN node.children}

RECURSIVE BTreeNodeRules(_, _, _)
BTreeNodeRules(node, t, isRoot) ==
    /\ Len(node.keys) <= 2 * t - 1
    /\ isRoot \/ Len(node.keys) >= t - 1
    /\ StrictlyIncreasing(node.keys)
    /\ node.isLeaf \/ Len(node.children) = Len(node.keys) + 1
    /\ \A c \in DOMAIN node.children : BTreeNodeRules(node.children[c], t, FALSE)

IsBTree(node, t) ==
    \/ node = Nil
    \/ /\ BTreeNodeRules(node, t, TRUE)
       /\ Cardinality(LeafDepths(node)) = 1

RECURSIVE NoRedRed(_)
NoRedRed(node) ==
    \/ node = Nil
    \/ /\ node.color = "red" =>
            /\ node.left = Nil \/ node.left.color # "red"
            /\ node.right = Nil \/ node.right.color # "red"
       /\ NoRedRed(node.left)
       /\ NoRedRed(node.right)

\* the numbers of black nodes on the paths from node down to a null link
RECURSIVE BlackCounts(_)
BlackCounts(node) ==
    IF node = Nil THEN {0}
    ELSE {n + (IF node.color = "black" THEN 1 ELSE 0) :
            n \in BlackCounts(node.left) \cup BlackCounts(node.right)}

EqualBlackCount(node) == Cardinality(BlackCounts(node)) = 1

BlackRoot(node) == node = Nil \/ node.color = "black"

IsRedBlack(node) == BlackRoot(node) /\ NoRedRed(node) /\ EqualBlackCount(node)

RECURSIVE RBHeight(_)
RBHeight(node) ==
    IF node = Nil THEN 0
    ELSE 1 + Max(RBHeight(node.left), RBHeight(node.right))

\* C5: the tree produced by a Red-Black build and by each later insert has
\* a black root, no red node with a red child, and the same number of black
\* nodes on every path from the root to a null child.
C5_BuildInsertRedBlack == family = "rb" => IsRedBlack(root)

C5_Witness ==
    /\ family = "rb" /\ op = "insert" /\ hit
    /\ Cardinality(RBTreeValues(root)) = MaxRBVal
    /\ RBHeight(root) = 4

\* C6: a Red-Black delete applied to a valid Red-Black tree returns a tree
\* with the same number of black nodes on every root-to-null path, also when
\* the removed node is black and its replacement is absent or black.
C6_DeleteEqualBlackCount ==
    [][(family = "rb" /\ op' = "delete" /\ IsRedBlack(root))
          => EqualBlackCount(root')]_vars

\* C7: after any sequence of Red-Black inserts and deletes a non-empty tree
\* has a black root and no red node with a red child.
C7_BlackRootNoRedRed == family = "rb" => (BlackRoot(root) /\ NoRedRed(root))

(***************************************************************************)
(* Properties of B+ Trees.                                                 *)
(***************************************************************************)
\* the leaves from left to right
RECURSIVE BPlusLeaves(_)
BPlusLeaves(node) ==
    IF node.isLeaf THEN <<node>>
    ELSE LET RECURSIVE Concat(_)
             Concat(c) == IF c > Len(node.children) THEN <<>>
                          ELSE BPlusLeaves(node.children[c]) \o Concat(c + 1)
         IN  Concat(1)

\* the keys read from leaf number k on by following next
RECURSIVE ChainKeys(_, _)
ChainKeys(leaves, k) ==
    IF k < Len(leaves) /\ leaves[k].next
    THEN leaves[k].keys \o ChainKeys(leaves, k + 1)
    ELSE leaves[k].keys

RECURSIVE SeparatorsAreSmallest(_)
SeparatorsAreSmallest(node) ==
    \/ node.isLeaf
    \/ /\ \A i \in DOMAIN node.keys :
            /\ i + 1 <= Len(node.children)
            /\ node.keys[i] = getSmallestKey(node.children[i + 1])
       /\ \A c \in DOMAIN node.children : SeparatorsAreSmallest(node.children[c])

RECURSIVE BPlusKeyCounts(_, _, _)
BPlusKeyCounts(node, t, isRoot) ==
    /\ Len(node.keys) <= 2 * t - 1
    /\ isRoot \/ Len(node.keys) >= t - 1
    /\ \A c \in DOMAIN node.children : BPlusKeyCounts(node.children[c], t, FALSE)

Occurrences(s, v) == Cardinality({i \in DOMAIN s : s[i] = v})

\* C8: following next from the leftmost leaf visits every leaf, and the
\* keys read along the chain are the stored values in strictly increasing
\* order.
C8_LeafChainComplete ==
    (family = "bplus" /\ root # Nil)
        => /\ ChainKeys(BPlusLeaves(root), 1) = BPlusLeafKeys(root)
           /\ StrictlyIncreasing(ChainKeys(BPlusLeaves(root), 1))
           /\ Range(ChainKeys(BPlusLeaves(root), 1)) = stored

\* C9: after a build, insert or delete every internal key i equals the
\* smallest key stored in the subtree of child i+1.
C9_SeparatorsSmallest ==
    (family = "bplus" /\ root # Nil) => SeparatorsAreSmallest(root)

C9_Witness ==
    /\ family = "bplus" /\ op = "delete" /\ hit
    /\ degree = 2
    /\ root # Nil /\ LeafDepths(root) = {2}

\* C10: after a build, insert or delete every non-root node holds t-1 to
\* 2t-1 keys, all leaves are at the same depth and every stored value lies
\* in exactly one leaf.
C10_BPlusRules ==
    family = "bplus"
        => IF root = Nil THEN stored = {}
           ELSE /\ BPlusKeyCounts(root, degree, TRUE)
                /\ Cardinality(LeafDepths(root)) = 1
                /\ \A v \in stored : Occurrences(BPlusLeafKeys(root), v) = 1

C10_Witness ==
    /\ family = "bplus" /\ op = "delete" /\ hit
    /\ degree = 2
    /\ root # Nil /\ LeafDepths(root) = {2}
    /\ Cardinality(stored) >= MaxBPlusKey - 1

(***************************************************************************)
(* Traversal producers (traversals.ts, bTreeTraversals.ts,                 *)
(* bPlusTreeTraversals.ts): the sequence of values the steps visit.        *)
(***************************************************************************)
RECURSIVE inorderTraversal(_)
inorderTraversal(node) ==
    IF node = Nil THEN <<>>
    ELSE inorderTraversal(node.left) \o <<node.value>>
         \o inorderTraversal(node.right)

\* for each key i: child i (if any), then the key; then the last child when
\* there are more children than keys
RECURSIVE inorderBTreeTraversal(_)
inorderBTreeTraversal(node) ==
    IF node = Nil THEN <<>>
    ELSE LET RECURSIVE PerKey(_)
             PerKey(i) ==
                IF i >= Len(node.keys) THEN <<>>
                ELSE (IF ~node.isLeaf /\ i < Len(node.children)
                      THEN inorderBTreeTraversal(At(node.children, i))
                      ELSE <<>>)
                     \o <<At(node.keys, i)>> \o PerKey(i + 1)
         IN  PerKey(0)
             \o (IF ~node.isLeaf /\ Len(node.children) > Len(node.keys)
                 THEN inorderBTreeTraversal(node.children[Len(node.children)])
                 ELSE <<>>)

\* C11: for BST, AVL, Red-Black and B-Tree the in-order traversal of the
\* returned tree visits exactly the values inserted and not deleted since,
\* each once, in strictly ascending order.
C11_InorderIsStored ==
    /\ family \in {"bst", "avl", "rb"}
         => /\ StrictlyIncreasing(inorderTraversal(root))
            /\ Range(inorderTraversal(root)) = stored
    /\ family = "btree"
         => /\ StrictlyIncreasing(inorderBTreeTraversal(root))
            /\ Range(inorderBTreeTraversal(root)) = stored

C11_Witness ==
    /\ family = "btree" /\ op = "delete" /\ hit
    /\ root # Nil /\ ~root.isLeaf
    /\ Cardinality(stored) >= 5

\* bPlusTreeTraversals.ts: the same walk as for a B-Tree; the keys of
\* internal nodes ("index keys") are visited like the keys of leaves
RECURSIVE inorderBPlusTreeTraversal(_)
inorderBPlusTreeTraversal(node) ==
    IF node = Nil THEN <<>>
    ELSE LET RECURSIVE PerKey(_)
             PerKey(i) ==
                IF i >= Len(node.keys) THEN <<>>
                ELSE (IF ~node.isLeaf /\ i < Len(node.children)
                      THEN inorderBPlusTreeTraversal(At(node.children, i))
                      ELSE <<>>)
                     \o <<At(node.keys, i)>> \o PerKey(i + 1)
         IN  PerKey(0)
             \o (IF ~node.isLeaf /\ Len(node.children) > Len(node.keys)
                 THEN inorderBPlusTreeTraversal(node.children[Len(node.children)])
                 ELSE <<>>)

\* C12: the in-order traversal of a B+ Tree built from a list of values
\* emits exactly the distinct values of the list, each once, in strictly
\* ascending order.
C12_InorderBPlusIsStored ==
    (family = "bplus" /\ op \in {"build", "buildWithSteps"})
        => /\ StrictlyIncreasing(inorderBPlusTreeTraversal(root))
           /\ Range(inorderBPlusTreeTraversal(root)) = stored

\* C13: for BST, AVL, B-Tree and B+ Tree, once every value put into the
\* tree has been deleted, whatever the order and the number of delete calls,
\* the returned root is the empty tree (null).
C13_DeleteAllIsEmpty ==
    (family \in {"bst", "avl", "btree", "bplus"} /\ op = "delete" /\ stored = {})
        => root = Nil

C13_Witness ==
    /\ family = "btree" /\ op = "delete" /\ hit
    /\ stored = {} /\ root = Nil

\* C14: deleting one stored word from a trie never changes the result of
\* searching for another word: every other stored word is still reported
\* found, every word that was not stored is still reported not found.
TrieFound(trieRoot, word) ==
    searchTrieWithSteps(trieRoot, word)[Len(searchTrieWithSteps(trieRoot, word))]
        = "found"

C14_DeleteKeepsOtherWords ==
    [][(family = "trie" /\ op' = "delete" /\ stored' # stored)
          => \A word \in Words :
                /\ word \in stored' => TrieFound(root', word)
                /\ word \notin stored => ~TrieFound(root', word)
                /\ word \in stored' \/ word \notin stored
                      => TrieFound(root', word) = TrieFound(root, word)]_vars

C14_Witness ==
    /\ family = "trie" /\ op = "delete" /\ hit
    /\ stored = {<<"a">>, <<"a", "b">>}
    /\ root # Nil /\ DOMAIN root.children = {"a"}
    /\ DOMAIN root.children["a"].children = {"b"}

\* C15: in every family, the trace of a search for one value in a non-empty
\* tree ends with a single terminal step, which reports found exactly when
\* the value is stored, and no error is raised.
TerminalKinds == {"found", "notFound", "prefix", "missing"}

Structure(tree) == IF family = "bplus" THEN cloneBPlusTreeNode(tree) ELSE tree

\* C16: in every family, an insert whose values (or words) are all stored
\* already returns a tree structurally identical to the input tree.
C16_InsertStoredIsIdentity ==
    [][(op' = "insert" /\ ~threw' /\ stored' = stored)
          => Structure(root') = Structure(root)]_vars

\* C17: no insert or delete of any family modifies the tree passed in: after
\* the call that tree is structurally identical to what it was before.
C17_InputNotModified ==
    op \in {"insert", "delete"} => intact

\* C18: the snapshot attached to a step is the tree at the moment the step
\* was recorded: a comparison made before the value was inserted shows a
\* tree without that value, a completed change shows the tree after it.
C18_SnapshotIsTreeWhenRecorded ==
    op = "insert"
        => \A k \in DOMAIN trace :
              "tree" \in DOMAIN trace[k] => trace[k].tree = trace[k].at

\* C19: a step never changes after it was appended: when the call returns,
\* the highlighted ids of every step are those it was appended with.
C19_StepsKeptAsAppended ==
    op = "insert"
        => \A k \in DOMAIN trace :
              trace[k].highlightIds = trace[k].appended

\* C20: deleting a value that is not stored in a non-empty tree raises no
\* error, returns a tree structurally identical to the input tree, and ends
\* its trace with the step saying that the value was not found.
C20_DeleteAbsentIsIdentity ==
    [][(op' = "delete" /\ root # Nil /\ query' \notin stored)
          => /\ ~threw'
             /\ Structure(root') = Structure(root)
             /\ trace' # <<>>
             /\ trace'[Len(trace')] = "notFound"]_vars

\* C21: no B-Tree or B+ Tree build, insert or delete runs with a minimum
\* degree outside 2..100: such a degree is rejected before the engine call.
C21_DegreeInRange ==
    (family \in {"btree", "bplus"}
        /\ op \in {"build", "buildWithSteps", "insert", "delete"})
        => degree \in 2..100

\* the number of levels of a B-Tree (all leaves are on the last one)
RECURSIVE BTreeHeight(_)
BTreeHeight(node) ==
    IF node.isLeaf THEN 1 ELSE 1 + BTreeHeight(node.children[1])

AscendingRun == [k \in 1..7 |-> k]

RECURSIVE PathTo(_, _)
PathTo(node, value) ==
    IF node = Nil THEN <<>>
    ELSE IF value = node.value THEN <<value>>
    ELSE <<node.value>>
         \o PathTo(IF value < node.value THEN node.left ELSE node.right, value)

\* C23: every step of a BST operation carries as its highlighted ids the
\* whole comparison path from the root down to the node the step is about,
\* in that order, not only that node.
C23_HighlightIsPath ==
    (family = "bst" /\ op = "insert")
        => \A k \in DOMAIN trace :
              trace[k].highlightIds = PathTo(trace[k].at, trace[k].node)

\* C24: every node created by a build or an insert gets an id that no node
\* created earlier by the same family got: no id is issued twice, across
\* separate builds and between a build and later inserts included.
C24_IdsNeverReused ==
    \A i, j \in DOMAIN issued : i # j => issued[i] # issued[j]

\* C25: an engine call is a function of its input: two successive builds of
\* the same input return the same tree with the same node ids, whatever was
\* called before.
C25_SameCallSameResult ==
    [][(op = "build" /\ op' = "build" /\ query' = query)
          => (root' = root /\ ids' = ids)]_vars

\* C26: when an insert or a delete returns steps that carry snapshots, the
\* snapshot of the last step is the tree the call returned, so that the
\* canvas shows the same tree at the end of the playback and after it.
C26_LastSnapshotIsRoot ==
    (family = "bst" /\ op \in {"insert", "delete"} /\ trace # <<>>)
        => trace[Len(trace)].tree = root

\* C27: the animated build returns the tree the instant build returns for
\* the same list of values: same shape, same values in the same nodes.
C27_AnimatedBuildIsInstantBuild ==
    (family = "avl" /\ op = "buildWithSteps" /\ ~threw)
        => root = buildAVLTree(query)

\* C28: in a B-Tree delete, whenever the key is not in the current node, the
\* child the delete goes down into holds at least t keys when it goes down.
C28_ChildFullBeforeDescent ==
    (family = "btree" /\ op = "delete")
        => \A k \in DOMAIN trace : trace[k] >= MIN_DEGREE

\* C29: after any sequence of trie inserts and deletes, every node other
\* than the root has at least one child or ends a word: a delete leaves no
\* chain of nodes that leads to no word.
RECURSIVE NoDeadBranch(_)
NoDeadBranch(node) ==
    \A c \in DOMAIN node.children :
        /\ DOMAIN node.children[c].children # {} \/ node.children[c].isEndOfWord
        /\ NoDeadBranch(node.children[c])

C29_NoDeadBranch ==
    (family = "trie" /\ root # Nil) => NoDeadBranch(root)

\* a delete has removed the node of the last letter of a word and kept the
\* node above it, which ends another word
C29_Witness ==
    /\ family = "trie" /\ op = "delete" /\ hit
    /\ stored = {<<"a">>}
    /\ DOMAIN root.children = {"a"}
    /\ DOMAIN root.children["a"].children = {}
    /\ root.children["a"].isEndOfWord

\* C30: the index never exceeds the last step; once playback runs and the
\* user leaves the page alone, every timer tick moves the index on by one
\* or, on the last step, stops the playback; and the playback eventually
\* stops with playing = false, no live interval timer and the index on the
\* last step.
PlaybackStopped ==
    /\ ~store.playing
    /\ store.playIntervalId = 0
    /\ window.intervals = {}
    /\ store.index = Len(store.steps) - 1

C30_PlaybackRunsToEnd ==
    /\ [](store.index <= Len(store.steps) - 1)
    /\ [][(handsOff /\ store.playing /\ window'.timeouts = window.timeouts)
             => \/ store'.index = store.index + 1 /\ store'.playing
                \/ store.index = Len(store.steps) - 1 /\ PlaybackStopped']_vars
    /\ (handsOff /\ store.playing) ~> PlaybackStopped

\* an animated operation was played to its last step and paused itself
C30_Witness ==
    /\ handsOff /\ PlaybackStopped
    /\ Len(store.steps) = MaxSteps
    /\ store.activeAction = "none"
    /\ window.created > 0

=============================================================================
